---- MODULE Spec2Model ----
(***************************************************************************)
(* dev.echo backend: the audio buffering and transcription scheduler       *)
(* (backend/transcription/service.py), the IPC server: its dispatch loop,  *)
(* broadcast, start and stop (backend/ipc/server.py, ipc/protocol.py), and *)
(* the start and shutdown of the backend (backend/main.py).                *)
(*                                                                         *)
(* The backend runs on one asyncio event loop: a coroutine runs without    *)
(* interruption from one suspension point (an await that really waits) to  *)
(* the next, so every action below is one such run of one coroutine.       *)
(*                                                                         *)
(* Samples are modelled in blocks: one model sample stands for a block of  *)
(* 4000 consecutive audio samples, so that SAMPLE_RATE is 4 blocks per     *)
(* second, the window of 2.0 s is 8 blocks (32,000 samples) and the        *)
(* minimum flush length of 0.5 s is 2 blocks (8,000 samples).  A sample    *)
(* is named by its arrival number within its source (1, 2, 3, ...).        *)
(***************************************************************************)
EXTENDS Integers, Sequences, FiniteSets, TLC

\* ------------------------------------------------------------------------
\* Bounds of the model
\* ------------------------------------------------------------------------

\* Calls of process_audio in a run.
MaxChunks == 2

\* Frames the clients send in a run.
MaxFrames == 2

\* Handler attributes set in a run.
MaxHandlers == 2

\* Calls of IPCServer.start in a run.
MaxStarts == 2

\* Calls of IPCServer.broadcast in a run.
MaxBroadcasts == 2

\* Calls of handle_kb_remove in a behaviour.
MaxRemoves == 2

\* Request frames a connection sends in a behaviour.
MaxDispatch == 2

\* Calls of TranscriptionService.start and stop in a behaviour.
MaxCalls == 4

\* ------------------------------------------------------------------------
\* Program constants (transcription/service.py, engine.py)
\* ------------------------------------------------------------------------

SAMPLE_RATE == 4

BUFFER_DURATION_SECONDS == 2

MIN_BUFFER_SAMPLES == SAMPLE_RATE \div 2

buffer_threshold == SAMPLE_RATE * BUFFER_DURATION_SECONDS

\* list(AudioSource): SYSTEM first, MICROPHONE second.
AudioSource == <<"system", "microphone">>

Sources == {AudioSource[i] : i \in 1..Len(AudioSource)}

\* The two callers of stop() in main.py: the task the signal handler creates
\* and the finally clause of DevEchoBackend.run.
StopCallers == {"signal", "run"}

\* Coroutines that await engine.transcribe.
Owners == {"loop"} \cup StopCallers

\* Sizes of the chunks handed to process_audio.
ChunkSizes == {0, 1, MIN_BUFFER_SAMPLES, buffer_threshold}

\* Outcomes of engine.transcribe: text, empty text (no speech), or it raises.
Outcomes == {"text", "empty", "raise"}

\* Values of a start timestamp: the timestamp of a chunk is the number of
\* samples that arrived for its source before it; time.time() is TimeNow; a
\* key missing from _buffer_timestamps is Absent.
TimeNow == -1

Absent == -2

NoCall == [src |-> "none", wid |-> 0, samples |-> <<>>, ts |-> Absent, at |-> 0]

VARIABLES
    running,            \* TranscriptionService._running
    buffers,            \* TranscriptionService._buffers
    buffer_timestamps,  \* TranscriptionService._buffer_timestamps
    lock,               \* holder of TranscriptionService._lock, or "free"
    loopPc,             \* where the _process_loop task is suspended
    loopIdx,            \* index in list(AudioSource) of the loop's for statement
    stopPc,             \* where each stop() call is suspended
    stopIdx,            \* index in list(AudioSource) of each _flush_buffers
    inflight,           \* the engine.transcribe call each coroutine awaits
                        \* ("at": the samples that had arrived when it began)
    chunks,             \* calls of process_audio so far
    appended,           \* samples handed to process_audio, per source
    extracted,          \* windows removed from each buffer, in removal order
    started,            \* windows whose engine.transcribe call began, in order
    ended,              \* windows whose call returned or raised, per source
    lastResult,         \* the call that ended last, and how
    abandoned,          \* windows whose call was cancelled, per source
    executor,           \* source of the cancelled call whose worker thread
                        \* still runs mlx_whisper.transcribe, or "none"
    emitted,            \* windows handed to the _on_transcription callback
    errors,             \* "Transcription error" lines logged
    stopSeen            \* sources that held a partial buffer of at least the
                        \* minimum flush length when each stop() was called

tvars ==
    <<running, buffers, buffer_timestamps, lock, loopPc, loopIdx, stopPc,
      stopIdx, inflight, chunks, appended, extracted, started, ended,
      lastResult, abandoned, executor, emitted, errors, stopSeen>>

VARIABLES
    srvRunning,         \* IPCServer._running
    clients,            \* IPCServer.clients: the writers of the connections
    cpc,                \* where each connection's _handle_client is suspended
    wire,               \* bytes a client has sent that no read has returned yet
    buf,                \* the local "buffer" of each _handle_client
    handlerCall,        \* the handler call each _handle_client awaits
    log,                \* per connection, what became of each frame, in order
    dedicated,          \* tags whose Phase 2 handler attribute is set
    fallback,           \* tags whose Phase 1 handler attribute is set
    sent                \* frames the clients have sent so far

cvars ==
    <<srvRunning, clients, cpc, wire, buf, handlerCall, log, dedicated,
      fallback, sent>>

VARIABLES
    wclosed,            \* connections whose writer has had close() called
    outbox,             \* per connection, the messages written to its writer
    server,             \* IPCServer.server: the start() that made it, 0: None
    listening,          \* the servers (by the start() that made them) that
                        \* accept connections
    sockFile,           \* the server bound to the file at socket_path, 0 when
                        \* there is no file
    starts,             \* calls of IPCServer.start so far
    istopPc,            \* where each call of IPCServer.stop is suspended
    istopIdx,           \* position of each stop() in its loop over clients
    istopAtBegin,       \* the connections in clients when each stop() began
    bcPc,               \* where the call of IPCServer.broadcast is suspended
    bcIdx,              \* position of broadcast in its loop over clients
    bcCur,              \* the connection whose drain broadcast awaits, or 0
    bcPlan,             \* how the write to each connection goes in this call
    bcId,               \* calls of IPCServer.broadcast so far
    bcAtBegin,          \* the connections in clients when this call began
    bcFailed            \* the connections whose write raised in this call

\* The writers and the listening socket.
\* The calls of IPCServer.stop.
svars == <<istopPc, istopIdx, istopAtBegin>>

lvars == <<wclosed, outbox, server, listening, sockFile, starts, svars>>

\* IPCServer.broadcast.
bvars == <<bcPc, bcIdx, bcCur, bcPlan, bcId, bcAtBegin, bcFailed>>

ivars == <<cvars, lvars, bvars>>

VARIABLES
    hpc,                \* where the handler or service call under study is
                        \* suspended
    hreq,               \* the arguments of that call
    hcalls,             \* the calls it has made to its collaborators, with
                        \* what each was given, in order
    hout                \* what it returned or raised, or wrote to the writer

\* One call of a handler, of CloudLLMService.query or of the codec.
hvars == <<hpc, hreq, hcalls, hout>>

vars == <<tvars, ivars, hvars>>

\* ------------------------------------------------------------------------
\* Helpers
\* ------------------------------------------------------------------------

Range(a, b) == [i \in 1..(b - a + 1) |-> a + i - 1]

RECURSIVE Flatten(_)
Flatten(ws) == IF ws = <<>> THEN <<>> ELSE Head(ws) \o Flatten(Tail(ws))

Drop(s, n) == SubSeq(s, n + 1, Len(s))

Take(s, n) == SubSeq(s, 1, n)

Samples(ws) == Flatten([i \in 1..Len(ws) |-> ws[i].samples])

\* ------------------------------------------------------------------------
\* TranscriptionService
\*
\* asyncio.Lock.acquire does not suspend when the lock is free, and no locked
\* section of the service holds an await: a coroutine that enters
\* "async with self._lock" leaves it in the same run.  engine.shutdown holds
\* no await either.
\* ------------------------------------------------------------------------

TInit ==
    /\ running = FALSE
    /\ buffers = [S \in Sources |-> <<>>]
    /\ buffer_timestamps = [S \in Sources |-> Absent]
    /\ lock = "free"
    /\ loopPc = "none"
    /\ loopIdx = 1
    /\ stopPc = [p \in StopCallers |-> "idle"]
    /\ stopIdx = [p \in StopCallers |-> 1]
    /\ inflight = [o \in Owners |-> NoCall]
    /\ chunks = 0
    /\ appended = [S \in Sources |-> 0]
    /\ extracted = [S \in Sources |-> <<>>]
    /\ started = [S \in Sources |-> <<>>]
    /\ ended = [S \in Sources |-> {}]
    /\ lastResult = [src |-> "none", wid |-> 0, outcome |-> "none"]
    /\ abandoned = [S \in Sources |-> {}]
    /\ executor = "none"
    /\ emitted = [S \in Sources |-> <<>>]
    /\ errors = 0
    /\ stopSeen = [p \in StopCallers |-> {}]

StopCalled == \E p \in StopCallers : stopPc[p] # "idle"

\* start(): returns at once when _running; otherwise (engine.initialize done)
\* sets _running and creates the _process_loop task, which first sleeps.
\* main.py calls it once, before the IPC server accepts anything.
Start ==
    /\ ~running
    /\ loopPc = "none"
    /\ ~StopCalled
    /\ running' = TRUE
    /\ loopPc' = "sleep"
    /\ UNCHANGED <<buffers, buffer_timestamps, lock, loopIdx, stopPc, stopIdx,
                   inflight, chunks, appended, extracted, started, ended,
                   lastResult, abandoned, executor, emitted, errors,
                   stopSeen>>
    /\ UNCHANGED <<ivars, hvars>>

\* if audio_source not in self._buffer_timestamps: ... = timestamp
TrackTimestamp(old, timestamp) == IF old = Absent THEN timestamp ELSE old

\* self._buffers[audio_source].extend(samples)
Extend(buffer, samples) == buffer \o samples

\* process_audio(samples, source, timestamp): under the lock, extend the
\* source's buffer and record the timestamp when the source has none.
ProcessAudio(S, n) ==
    /\ loopPc # "none"
    /\ lock = "free"
    /\ chunks < MaxChunks
    /\ chunks' = chunks + 1
    /\ buffers' = [buffers EXCEPT
          ![S] = Extend(@, Range(appended[S] + 1, appended[S] + n))]
    /\ buffer_timestamps' = [buffer_timestamps EXCEPT
          ![S] = TrackTimestamp(@, appended[S])]
    /\ appended' = [appended EXCEPT ![S] = @ + n]
    /\ UNCHANGED <<running, lock, loopPc, loopIdx, stopPc, stopIdx, inflight,
                   extracted, started, ended, lastResult, abandoned, executor,
                   emitted, errors, stopSeen>>
    /\ UNCHANGED <<ivars, hvars>>

WindowReady_Strict(buffer) == Len(buffer) > buffer_threshold

\* if len(buffer) >= buffer_threshold
WindowReady(buffer) == Len(buffer) >= buffer_threshold

\* samples = buffer[:buffer_threshold]
WindowOf(buffer) == Take(buffer, buffer_threshold)

RestOf_SkipsOne(buffer) == Drop(buffer, buffer_threshold + 1)

\* self._buffers[source] = buffer[buffer_threshold:]
RestOf(buffer) == Drop(buffer, buffer_threshold)

PopTimestamp_Stale(S) ==
    IF \E T \in Sources \ {S} : buffer_timestamps[T] # Absent
      THEN buffer_timestamps[CHOOSE T \in Sources \ {S} :
                                 buffer_timestamps[T] # Absent]
      ELSE TimeNow

\* self._buffer_timestamps.pop(source, time.time())
PopTimestamp(S) ==
    IF buffer_timestamps[S] = Absent THEN TimeNow ELSE buffer_timestamps[S]

\* The first source at or after position i of list(AudioSource) whose buffer
\* holds a window, 0 when there is none: the for statement of
\* _check_and_process_buffers runs on without suspending over the sources
\* that have no window.
FirstReady(i) ==
    LET js == {j \in i..Len(AudioSource) : WindowReady(buffers[AudioSource[j]])}
    IN  IF js = {} THEN 0 ELSE CHOOSE j \in js : \A k \in js : j <= k

LockDuringCall_Held == "loop"

\* The lock while _transcribe_buffer runs: line 152, "Process outside lock".
LockDuringCall == "free"

\* Where _check_and_process_buffers is once it has called _transcribe_buffer
\* for the source at position j: suspended in the await of that call.
LoopAfterCall(j) == [pc |-> "await", idx |-> j]

\* _check_and_process_buffers from position i of its for statement up to the
\* next suspension: the first source with a window has it removed under the
\* lock and _transcribe_buffer awaits engine.transcribe for it; with no
\* window left the pass ends and _process_loop sleeps again.
LoopContinue(i) ==
    LET j == FirstReady(i)
    IN  IF j = 0
          THEN /\ loopPc' = IF running THEN "sleep" ELSE "done"
               /\ loopIdx' = 1
               /\ lock' = "free"
               /\ inflight' = [inflight EXCEPT !["loop"] = NoCall]
               /\ UNCHANGED <<buffers, buffer_timestamps, extracted, started>>
          ELSE LET S      == AudioSource[j]
                   buffer == buffers[S]
                   rest   == RestOf(buffer)
                   wid    == Len(extracted[S]) + 1
                   call   == [src |-> S, wid |-> wid,
                              samples |-> WindowOf(buffer),
                              ts |-> PopTimestamp(S), at |-> appended[S]]
               IN  /\ buffers' = [buffers EXCEPT ![S] = rest]
                   /\ buffer_timestamps' = [buffer_timestamps EXCEPT
                         ![S] = IF rest # <<>> THEN TimeNow ELSE Absent]
                   /\ extracted' = [extracted EXCEPT
                         ![S] = Append(@, [by |-> "loop",
                                           samples |-> call.samples])]
                   /\ started' = [started EXCEPT ![S] = Append(@, wid)]
                   /\ inflight' = [inflight EXCEPT !["loop"] = call]
                   /\ loopPc' = LoopAfterCall(j).pc
                   /\ loopIdx' = LoopAfterCall(j).idx
                   /\ lock' = LockDuringCall

\* _process_loop: asyncio.sleep(0.5) is over, _check_and_process_buffers runs.
LoopWake ==
    /\ loopPc = "sleep"
    /\ lock = "free"
    /\ LoopContinue(1)
    /\ UNCHANGED <<running, stopPc, stopIdx, chunks, appended, ended,
                   lastResult, abandoned, executor, emitted, errors,
                   stopSeen>>
    /\ UNCHANGED <<ivars, hvars>>

TranscribeBuffer_EmitsEmpty(outcome) ==
    CASE outcome = "text"  -> [emit |-> TRUE,  log |-> 0]
      [] outcome = "empty" -> [emit |-> TRUE,  log |-> 0]
      [] outcome = "raise" -> [emit |-> FALSE, log |-> 1]

TranscribeBuffer_Silent(outcome) ==
    CASE outcome = "text"  -> [emit |-> TRUE,  log |-> 0]
      [] outcome = "empty" -> [emit |-> FALSE, log |-> 0]
      [] outcome = "raise" -> [emit |-> FALSE, log |-> 0]

\* What _transcribe_buffer does with the end of engine.transcribe: a result
\* with text goes to the callback, an empty text is skipped, an exception is
\* logged and swallowed.
TranscribeBuffer(outcome) ==
    CASE outcome = "text"  -> [emit |-> TRUE,  log |-> 0]
      [] outcome = "empty" -> [emit |-> FALSE, log |-> 0]
      [] outcome = "raise" -> [emit |-> FALSE, log |-> 1]

\* engine.transcribe, awaited by the loop, returns or raises.  With text the
\* callback is called and awaited; otherwise _transcribe_buffer returns and
\* the for statement goes on with the next source.
LoopTranscribeEnd(outcome) ==
    /\ loopPc = "await"
    /\ inflight["loop"] # NoCall
    /\ lock = "free"
    /\ LET call == inflight["loop"]
           S    == call.src
           t    == TranscribeBuffer(outcome)
       IN  /\ ended' = [ended EXCEPT ![S] = @ \cup {call.wid}]
           /\ lastResult' = [src |-> S, wid |-> call.wid, outcome |-> outcome]
           /\ emitted' = [emitted EXCEPT
                 ![S] = IF t.emit THEN Append(@, call.wid) ELSE @]
           /\ errors' = errors + t.log
           /\ IF t.emit
                THEN /\ loopPc' = "callback"
                     /\ inflight' = [inflight EXCEPT !["loop"] = NoCall]
                     /\ UNCHANGED <<buffers, buffer_timestamps, extracted,
                                    started, loopIdx, lock>>
                ELSE LoopContinue(loopIdx + 1)
    /\ UNCHANGED <<running, stopPc, stopIdx, chunks, appended, abandoned,
                   executor, stopSeen>>
    /\ UNCHANGED <<ivars, hvars>>

\* The awaited _on_transcription callback returns to _transcribe_buffer and
\* the for statement goes on with the next source.
LoopCallbackEnd ==
    /\ loopPc = "callback"
    /\ lock = "free"
    /\ LoopContinue(loopIdx + 1)
    /\ UNCHANGED <<running, stopPc, stopIdx, chunks, appended, ended,
                   lastResult, abandoned, executor, emitted, errors,
                   stopSeen>>
    /\ UNCHANGED <<ivars, hvars>>

\* if len(buffer) >= self.MIN_BUFFER_SAMPLES
FlushReady(buffer) == Len(buffer) >= MIN_BUFFER_SAMPLES

LoopAlive_Never == FALSE

\* The task is suspended somewhere (created and not finished).
LoopAlive == loopPc \notin {"none", "done"}

\* stop(): _running = False, then _process_task.cancel() and await of the
\* task.  The CancelledError reaches the task at the await where it is
\* suspended; it is no Exception, so _transcribe_buffer does not catch it and
\* _process_loop breaks: the call the loop was awaiting is abandoned.  The
\* future of run_in_executor is cancelled, the worker thread that already
\* runs mlx_whisper.transcribe is not: it goes on to the end of the window.
\* run()'s stop() follows the signal's: DevEchoBackend.stop clears the flag
\* that run() polls.
StopBegin(p) ==
    /\ stopPc[p] = "idle"
    /\ loopPc # "none"
    /\ p = "run" => stopPc["signal"] # "idle"
    /\ running' = FALSE
    /\ stopSeen' = [stopSeen EXCEPT ![p] =
          {S \in Sources : FlushReady(buffers[S]) /\ ~WindowReady(buffers[S])}]
    /\ stopPc' = [stopPc EXCEPT ![p] = "awaitTask"]
    /\ IF LoopAlive
         THEN /\ loopPc' = "done"
              /\ inflight' = [inflight EXCEPT !["loop"] = NoCall]
              /\ abandoned' =
                   IF inflight["loop"] # NoCall
                     THEN [abandoned EXCEPT ![inflight["loop"].src] =
                             @ \cup {inflight["loop"].wid}]
                     ELSE abandoned
              /\ executor' =
                   IF inflight["loop"] # NoCall
                     THEN inflight["loop"].src
                     ELSE executor
         ELSE UNCHANGED <<loopPc, inflight, abandoned, executor>>
    /\ UNCHANGED <<buffers, buffer_timestamps, lock, loopIdx, stopIdx, chunks,
                   appended, extracted, started, ended, lastResult, emitted,
                   errors>>
    /\ UNCHANGED <<ivars, hvars>>

\* The first source at or after position i whose buffer _flush_buffers
\* transcribes, 0 when there is none.
FirstFlushReady(i) ==
    LET js == {j \in i..Len(AudioSource) : FlushReady(buffers[AudioSource[j]])}
    IN  IF js = {} THEN 0 ELSE CHOOSE j \in js : \A k \in js : j <= k

\* self._buffers[source] = [], for every source _flush_buffers passes.
FlushRest(buffer) == <<>>

Passed_All(i, last) == Sources

\* for source in list(AudioSource): the sources at positions i to last of
\* the for statement of _flush_buffers, each of which has its own buffer
\* taken and reset under the lock.
Passed(i, last) == {AudioSource[k] : k \in i..last}

\* _flush_buffers from position i of its for statement up to the next
\* suspension: under the lock every source passed has its whole buffer taken
\* and reset; the first buffer of the minimum length goes to
\* _transcribe_buffer, which awaits engine.transcribe.  After the last source
\* engine.shutdown() runs and stop() returns.
FlushContinue(p, i) ==
    LET j       == FirstFlushReady(i)
        last    == IF j = 0 THEN Len(AudioSource) ELSE j
        passed  == Passed(i, last)
    IN  /\ buffers' = [S \in Sources |->
              IF S \in passed THEN FlushRest(buffers[S]) ELSE buffers[S]]
        /\ buffer_timestamps' = [S \in Sources |->
              IF S \in passed THEN Absent ELSE buffer_timestamps[S]]
        /\ extracted' = [S \in Sources |->
              IF S \in passed /\ buffers[S] # <<>>
                THEN Append(extracted[S], [by |-> p, samples |-> buffers[S]])
                ELSE extracted[S]]
        /\ lock' = "free"
        /\ IF j = 0
             THEN /\ stopPc' = [stopPc EXCEPT ![p] = "done"]
                  /\ inflight' = [inflight EXCEPT ![p] = NoCall]
                  /\ UNCHANGED <<stopIdx, started>>
             ELSE LET S    == AudioSource[j]
                      wid  == Len(extracted[S]) + 1
                      call == [src |-> S, wid |-> wid, samples |-> buffers[S],
                               ts |-> PopTimestamp(S), at |-> appended[S]]
                  IN  /\ stopPc' = [stopPc EXCEPT ![p] = "await"]
                      /\ stopIdx' = [stopIdx EXCEPT ![p] = j]
                      /\ inflight' = [inflight EXCEPT ![p] = call]
                      /\ started' = [started EXCEPT ![S] = Append(@, wid)]

\* The cancelled task has finished: stop() goes on to _flush_buffers.
StopTaskDone(p) ==
    /\ stopPc[p] = "awaitTask"
    /\ lock = "free"
    /\ FlushContinue(p, 1)
    /\ UNCHANGED <<running, loopPc, loopIdx, chunks, appended, ended,
                   lastResult, abandoned, executor, emitted, errors,
                   stopSeen>>
    /\ UNCHANGED <<ivars, hvars>>

\* engine.transcribe, awaited by _flush_buffers, returns or raises.
FlushTranscribeEnd(p, outcome) ==
    /\ stopPc[p] = "await"
    /\ inflight[p] # NoCall
    /\ lock = "free"
    /\ LET call  == inflight[p]
           S     == call.src
           t     == TranscribeBuffer(outcome)
       IN  /\ ended' = [ended EXCEPT ![S] = @ \cup {call.wid}]
           /\ lastResult' = [src |-> S, wid |-> call.wid, outcome |-> outcome]
           /\ emitted' = [emitted EXCEPT
                 ![S] = IF t.emit THEN Append(@, call.wid) ELSE @]
           /\ errors' = errors + t.log
           /\ IF t.emit
                THEN /\ stopPc' = [stopPc EXCEPT ![p] = "callback"]
                     /\ inflight' = [inflight EXCEPT ![p] = NoCall]
                     /\ UNCHANGED <<buffers, buffer_timestamps, extracted,
                                    started, stopIdx, lock>>
                ELSE FlushContinue(p, stopIdx[p] + 1)
    /\ UNCHANGED <<running, loopPc, loopIdx, chunks, appended, abandoned,
                   executor, stopSeen>>
    /\ UNCHANGED <<ivars, hvars>>

\* The awaited _on_transcription callback returns to _flush_buffers.
FlushCallbackEnd(p) ==
    /\ stopPc[p] = "callback"
    /\ lock = "free"
    /\ FlushContinue(p, stopIdx[p] + 1)
    /\ UNCHANGED <<running, loopPc, loopIdx, chunks, appended, ended,
                   lastResult, abandoned, executor, emitted, errors,
                   stopSeen>>
    /\ UNCHANGED <<ivars, hvars>>

\* The worker thread of a cancelled call comes to the end of its window;
\* the result goes to a cancelled future and is dropped.
ExecutorDone ==
    /\ executor # "none"
    /\ executor' = "none"
    /\ UNCHANGED <<running, buffers, buffer_timestamps, lock, loopPc, loopIdx,
                   stopPc, stopIdx, inflight, chunks, appended, extracted,
                   started, ended, lastResult, abandoned, emitted, errors,
                   stopSeen>>
    /\ UNCHANGED <<ivars, hvars>>

\* ------------------------------------------------------------------------
\* IPCServer (ipc/server.py) and IPCMessage (ipc/protocol.py)
\*
\* A client's bytes are modelled as tokens: a frame is one token, the text
\* of a line, followed by the newline token.  read() returns any non-empty
\* prefix of the bytes in flight.
\* ------------------------------------------------------------------------

Conns == {1, 2}

\* The values of MessageType.
MessageType ==
    {"audio_data", "transcription", "transcription_error", "llm_query",
     "llm_response", "llm_error", "cloud_llm_query", "cloud_llm_response",
     "cloud_llm_error", "kb_list", "kb_list_response", "kb_add", "kb_update",
     "kb_remove", "kb_response", "kb_error", "kb_sync_status",
     "kb_sync_trigger", "ping", "pong", "shutdown", "ack"}

\* The tags with a Phase 2 handler that overrides the Phase 1 handler.
KBTags == {"kb_list", "kb_add", "kb_update", "kb_remove"}

\* The text of a line: whether it is JSON, the value of its "type" key
\* ("missing" without the key) and whether it has a "payload" key.
Line(json, type, payload) == [json |-> json, type |-> type, payload |-> payload]

NL == Line("newline", "", "")

Garbage == Line("garbage", "", "")

NoType == Line("ok", "missing", "full")

UnknownType == Line("ok", "bogus", "full")

\* The lines the clients send when the routing of the knowledge-base tags
\* is examined: each tag with its payload, and kb_add without one.
KBFrames ==
    {Line("ok", t, "full") : t \in KBTags} \cup {Line("ok", "kb_add", "absent")}

\* The lines the clients send when decoding is examined: the three ways a
\* line fails to decode, and two lines that decode.
DecodeFrames ==
    {Garbage, NoType, UnknownType, Line("ok", "ping", "full"),
     Line("ok", "kb_list", "full")}

NoHandler == [type |-> "none", todo |-> <<>>]

\* The callers of IPCServer.stop: DevEchoBackend.stop, run by the signal
\* handler's task and by the finally of run(), and the _process_message of
\* each connection, for a shutdown frame.
FrameStopper(c) == <<"frame1", "frame2">>[c]

IStoppers == StopCallers \cup {FrameStopper(c) : c \in Conns}

\* How the write and the drain of a broadcast go on one connection: at once,
\* after a suspension of drain, or with an exception, at once or after a
\* suspension.
Plans == {"ok", "wait", "fail", "waitfail"}

\* A message written to a connection; id tells the broadcasts apart.
Msg(type, payload, id) == [type |-> type, payload |-> payload, id |-> id]

IInit ==
    /\ srvRunning = FALSE
    /\ clients = <<>>
    /\ cpc = [c \in Conns |-> "free"]
    /\ wire = [c \in Conns |-> <<>>]
    /\ buf = [c \in Conns |-> <<>>]
    /\ handlerCall = [c \in Conns |-> NoHandler]
    /\ log = [c \in Conns |-> <<>>]
    /\ dedicated = [t \in KBTags |-> FALSE]
    /\ fallback = [t \in KBTags |-> FALSE]
    /\ sent = 0
    /\ wclosed = [c \in Conns |-> FALSE]
    /\ outbox = [c \in Conns |-> <<>>]
    /\ server = 0
    /\ listening = {}
    /\ sockFile = 0
    /\ starts = 0
    /\ istopPc = [p \in IStoppers |-> "idle"]
    /\ istopIdx = [p \in IStoppers |-> 0]
    /\ istopAtBegin = [p \in IStoppers |-> {}]
    /\ bcPc = "idle"
    /\ bcIdx = 0
    /\ bcCur = 0
    /\ bcPlan = [c \in Conns |-> "ok"]
    /\ bcId = 0
    /\ bcAtBegin = {}
    /\ bcFailed = {}

\* IPCServer.start: the file at socket_path is unlinked, a new server is
\* bound to the path and kept in self.server, _running is set.
IPCStart ==
    /\ starts < MaxStarts
    /\ starts' = starts + 1
    /\ sockFile' = starts + 1
    /\ server' = starts + 1
    /\ listening' = listening \cup {starts + 1}
    /\ srvRunning' = TRUE
    /\ UNCHANGED <<clients, cpc, wire, buf, handlerCall, log, dedicated,
                   fallback, sent, wclosed, outbox, svars>>
    /\ UNCHANGED <<bvars, tvars, hvars>>

\* The one call of start() that DevEchoBackend.start makes.
ColdStart ==
    /\ starts = 0
    /\ IPCStart

Registered ==
    Cardinality({t \in KBTags : dedicated[t]})
        + Cardinality({t \in KBTags : fallback[t]})

\* on_kb_list, on_kb_add, on_kb_update, on_kb_remove
RegisterFallback(t) ==
    /\ ~fallback[t]
    /\ Registered < MaxHandlers
    /\ fallback' = [fallback EXCEPT ![t] = TRUE]
    /\ UNCHANGED <<srvRunning, clients, cpc, wire, buf, handlerCall, log,
                   dedicated, sent>>
    /\ UNCHANGED <<lvars, bvars, tvars, hvars>>

\* on_kb_list_paginated, on_s3_kb_add, on_s3_kb_update, on_s3_kb_remove
RegisterDedicated(t) ==
    /\ ~dedicated[t]
    /\ Registered < MaxHandlers
    /\ dedicated' = [dedicated EXCEPT ![t] = TRUE]
    /\ UNCHANGED <<srvRunning, clients, cpc, wire, buf, handlerCall, log,
                   fallback, sent>>
    /\ UNCHANGED <<lvars, bvars, tvars, hvars>>

\* The writers in a list of writers.
Members(ws) == {ws[i] : i \in 1..Len(ws)}

\* The finally of _handle_client: clients.remove(writer), then
\* writer.close().  remove raises ValueError when stop() has cleared the
\* list, and close() is not reached.
FinallyPc(c) == IF c \in Members(clients) THEN "closed" ELSE "crashed"

\* The writer of c leaves IPCServer.clients (the finally of _handle_client).
RemoveClient(c) == SelectSeq(clients, LAMBDA w : w # c)

\* A client connects to the server bound to the file: _handle_client starts
\* and appends its writer; its loop ends at once when _running is unset.
Connect(c) ==
    /\ sockFile \in listening
    /\ cpc[c] = "free"
    /\ IF srvRunning
         THEN /\ cpc' = [cpc EXCEPT ![c] = "read"]
              /\ clients' = Append(clients, c)
              /\ UNCHANGED wclosed
         ELSE /\ cpc' = [cpc EXCEPT ![c] = "closed"]
              /\ wclosed' = [wclosed EXCEPT ![c] = TRUE]
              /\ UNCHANGED clients
    /\ UNCHANGED <<srvRunning, wire, buf, handlerCall, log, dedicated,
                   fallback, sent, outbox, server, listening, sockFile,
                   starts, svars>>
    /\ UNCHANGED <<bvars, tvars, hvars>>

\* A connected client sends one line and its newline.
SendFrame(c, f) ==
    /\ cpc[c] \in {"read", "handler"}
    /\ sent < MaxFrames
    /\ sent' = sent + 1
    /\ wire' = [wire EXCEPT ![c] = @ \o <<f, NL>>]
    /\ UNCHANGED <<srvRunning, clients, cpc, buf, handlerCall, log, dedicated,
                   fallback>>
    /\ UNCHANGED <<lvars, bvars, tvars, hvars>>

\* IPCMessage.from_json: json.loads, MessageType(data["type"]) and
\* data.get("payload", {}).
FromJson(line) ==
    IF line.json # "ok"
      THEN [err |-> "JSONDecodeError", type |-> "", payload |-> ""]
    ELSE IF line.type = "missing"
      THEN [err |-> "KeyError", type |-> "", payload |-> ""]
    ELSE IF line.type \notin MessageType
      THEN [err |-> "ValueError", type |-> "", payload |-> ""]
    ELSE [err |-> "none", type |-> line.type,
          payload |-> IF line.payload = "absent" THEN "empty" ELSE "full"]

\* KBAddMessage, KBUpdateMessage, KBRemoveMessage.from_payload index the
\* payload and raise KeyError on an empty one; KBListRequestMessage uses get.
FromPayloadRaises(type, payload) ==
    type \in {"kb_add", "kb_update", "kb_remove"} /\ payload = "empty"

Route_Both(m) ==
    IF m.type \in KBTags
      THEN IF dedicated[m.type] /\ FromPayloadRaises(m.type, m.payload)
             THEN [todo |-> <<>>, err |-> "KeyError"]
           ELSE IF ~dedicated[m.type] /\ fallback[m.type] /\ m.type # "kb_list"
                   /\ FromPayloadRaises(m.type, m.payload)
             THEN [todo |-> <<>>, err |-> "KeyError"]
           ELSE [todo |-> (IF dedicated[m.type] THEN <<"dedicated">> ELSE <<>>)
                            \o (IF fallback[m.type] THEN <<"fallback">> ELSE <<>>),
                 err |-> "none"]
      ELSE [todo |-> <<>>, err |-> "none"]

\* _process_message: the handlers the branch of the message's type awaits,
\* in order, or the exception from_payload raises before any.  PING writes
\* PONG and awaits no handler; a type without a branch does nothing.
Route(m) ==
    IF m.type \in KBTags
      THEN IF dedicated[m.type]
             THEN IF FromPayloadRaises(m.type, m.payload)
                    THEN [todo |-> <<>>, err |-> "KeyError"]
                    ELSE [todo |-> <<"dedicated">>, err |-> "none"]
           ELSE IF fallback[m.type]
             THEN IF m.type # "kb_list" /\ FromPayloadRaises(m.type, m.payload)
                    THEN [todo |-> <<>>, err |-> "KeyError"]
                    ELSE [todo |-> <<"fallback">>, err |-> "none"]
           ELSE [todo |-> <<>>, err |-> "none"]
      ELSE [todo |-> <<>>, err |-> "none"]

PingReply_Echo(m) ==
    IF m.type = "ping" THEN <<Msg("pong", m.payload, 0)>> ELSE <<>>

\* _process_message, the PING branch: what the branch itself writes to the
\* writer of the connection, one PONG whose payload is {}.
PingReply(m) ==
    IF m.type = "ping" THEN <<Msg("pong", "empty", 0)>> ELSE <<>>

FrameErrorPolicy_Break == "break"

\* The try statement around from_json and _process_message lies inside the
\* while loop over the lines: after an exception the loop goes on.
FrameErrorPolicy == "continue"

\* A line a client writes in two sends: the first and the second part of
\* its text.
Frag(f, k) == [part |-> k, text |-> f]

\* line.decode().strip(): the text of the bytes of a line, however many
\* reads brought them.  The two parts of a text, in order, are the text;
\* any other run of more than one token is no JSON document.
Text(line) ==
    IF Len(line) = 1
      THEN IF "json" \in DOMAIN line[1] THEN line[1] ELSE Garbage
    ELSE IF /\ Len(line) = 2
            /\ "part" \in DOMAIN line[1]
            /\ "part" \in DOMAIN line[2]
            /\ line[1].part = 1
            /\ line[2].part = 2
            /\ line[1].text = line[2].text
      THEN line[1].text
    ELSE Garbage

FirstNL_Last(buffer) ==
    IF \E i \in 1..Len(buffer) : buffer[i] = NL
      THEN CHOOSE i \in 1..Len(buffer) :
               buffer[i] = NL /\ \A j \in (i + 1)..Len(buffer) : buffer[j] # NL
      ELSE 0

\* line, buffer = buffer.split(b"\n", 1): the position of the first newline
\* of the buffer, 0 when it holds none.
FirstNL(buffer) ==
    IF \E i \in 1..Len(buffer) : buffer[i] = NL
      THEN CHOOSE i \in 1..Len(buffer) :
               buffer[i] = NL /\ \A j \in 1..(i - 1) : buffer[j] # NL
      ELSE 0

\* What became of a frame: the type it decoded to ("" when it did not), the
\* exception logged for it and the handlers called for it.
Entry(type, err, ran) == [type |-> type, err |-> err, ran |-> ran]

\* while b"\n" in buffer: one run of the loop over the lines of the buffer,
\* up to the await of a handler or of stop(), the end of the lines or a
\* break.  out is what has been written to the writer of the connection.
RECURSIVE ProcessLines(_, _, _)
ProcessLines(buffer, lg, out) ==
    LET i == FirstNL(buffer)
    IN  IF i = 0
          THEN [buf |-> buffer, log |-> lg, out |-> out, call |-> NoHandler,
                pc |-> "read"]
        ELSE LET line == SubSeq(buffer, 1, i - 1)
                 rest == SubSeq(buffer, i + 1, Len(buffer))
             IN  IF line = <<>>
                   THEN ProcessLines(rest, lg, out)
                 ELSE LET m == FromJson(Text(line))
                          r == Route(m)
                          err == IF m.err # "none" THEN m.err ELSE r.err
                      IN  IF err # "none"
                            THEN IF FrameErrorPolicy = "continue"
                                   THEN ProcessLines(rest,
                                            Append(lg, Entry(m.type, err, <<>>)),
                                            out)
                                   ELSE [buf |-> rest,
                                         log |-> Append(lg, Entry(m.type, err, <<>>)),
                                         out |-> out,
                                         call |-> NoHandler, pc |-> "closed"]
                          ELSE IF m.type = "shutdown"
                            THEN [buf |-> rest,
                                  log |-> Append(lg, Entry(m.type, "none", <<>>)),
                                  out |-> out,
                                  call |-> NoHandler, pc |-> "shutdown"]
                          ELSE IF r.todo = <<>>
                            THEN ProcessLines(rest,
                                     Append(lg, Entry(m.type, "none", <<>>)),
                                     out \o PingReply(m))
                          ELSE [buf |-> rest,
                                log |-> Append(lg,
                                           Entry(m.type, "none", <<Head(r.todo)>>)),
                                out |-> out,
                                call |-> [type |-> m.type, todo |-> Tail(r.todo)],
                                pc |-> "handler"]

\* _handle_client after a read or a handler: the lines of the buffer are
\* processed; when they are used up the outer loop tests _running and
\* either reads again or leaves through the finally.
Resume(c, buffer, lg) ==
    \E r \in {ProcessLines(buffer, lg, outbox[c])} :
    LET exits == r.pc = "closed" \/ (r.pc = "read" /\ ~srvRunning)
    IN  /\ buf' = [buf EXCEPT ![c] = IF exits THEN <<>> ELSE r.buf]
        /\ log' = [log EXCEPT ![c] = r.log]
        /\ outbox' = [outbox EXCEPT ![c] = r.out]
        /\ handlerCall' = [handlerCall EXCEPT ![c] = r.call]
        /\ cpc' = [cpc EXCEPT ![c] = IF exits THEN FinallyPc(c) ELSE r.pc]
        /\ clients' = IF exits THEN RemoveClient(c) ELSE clients
        /\ wclosed' = IF exits /\ c \in Members(clients)
                        THEN [wclosed EXCEPT ![c] = TRUE]
                        ELSE wclosed

\* reader.read returns n of the bytes in flight; the lines now complete are
\* processed.
ReadChunk(c, n) ==
    /\ cpc[c] = "read"
    /\ n \in 1..Len(wire[c])
    /\ wire' = [wire EXCEPT ![c] = SubSeq(@, n + 1, Len(@))]
    /\ Resume(c, buf[c] \o SubSeq(wire[c], 1, n), log[c])
    /\ UNCHANGED <<srvRunning, dedicated, fallback, sent, server, listening,
                   sockFile, starts, svars>>
    /\ UNCHANGED <<bvars, tvars, hvars>>

\* The handler c awaits returns and the response is written, or it raises
\* and the error is logged; either way the loop over the lines goes on.
HandlerEnd(c) ==
    /\ cpc[c] = "handler"
    /\ IF handlerCall[c].todo # <<>>
         THEN /\ log' = [log EXCEPT ![c][Len(log[c])].ran =
                            Append(@, Head(handlerCall[c].todo))]
              /\ handlerCall' = [handlerCall EXCEPT ![c].todo = Tail(@)]
              /\ UNCHANGED <<buf, cpc, clients, wclosed, outbox>>
         ELSE Resume(c, buf[c], log[c])
    /\ UNCHANGED <<srvRunning, wire, dedicated, fallback, sent, server,
                   listening, sockFile, starts, svars>>
    /\ UNCHANGED <<bvars, tvars, hvars>>

\* The loop of _handle_client ends and its finally runs.
Finally(c) ==
    /\ cpc' = [cpc EXCEPT ![c] = FinallyPc(c)]
    /\ clients' = RemoveClient(c)
    /\ wclosed' = IF c \in Members(clients)
                    THEN [wclosed EXCEPT ![c] = TRUE]
                    ELSE wclosed
    /\ buf' = [buf EXCEPT ![c] = <<>>]

\* read returns b"": the client has closed its end and every byte was
\* read, or the writer of the connection was closed.  The loop breaks.
Eof(c) ==
    /\ cpc[c] = "read"
    /\ wire[c] = <<>> \/ wclosed[c]
    /\ Finally(c)
    /\ UNCHANGED <<srvRunning, wire, handlerCall, log, dedicated, fallback,
                   sent, outbox, server, listening, sockFile, starts,
                   svars>>
    /\ UNCHANGED <<bvars, tvars, hvars>>

\* wait_for(reader.read, 1.0) times out, and the loop finds _running unset.
Timeout(c) ==
    /\ cpc[c] = "read"
    /\ ~srvRunning
    /\ Finally(c)
    /\ UNCHANGED <<srvRunning, wire, handlerCall, log, dedicated, fallback,
                   sent, outbox, server, listening, sockFile, starts,
                   svars>>
    /\ UNCHANGED <<bvars, tvars, hvars>>

\* ------------------------------------------------------------------------
\* IPCServer.broadcast
\* ------------------------------------------------------------------------

\* for writer in self.clients: one run of the loop from position i of the
\* list as it is now, up to a drain that suspends or the end of the list.
\* A write that raises is logged and the loop goes on.
RECURSIVE BroadcastRun(_, _, _, _, _)
BroadcastRun(i, plan, id, out, failed) ==
    IF i > Len(clients)
      THEN [pc |-> "idle", idx |-> 0, cur |-> 0, out |-> out, failed |-> failed]
    ELSE LET w == clients[i]
             written == [out EXCEPT ![w] = Append(@, Msg("transcription", "full", id))]
         IN  IF plan[w] = "ok"
               THEN BroadcastRun(i + 1, plan, id, written, failed)
             ELSE IF plan[w] = "fail"
               THEN BroadcastRun(i + 1, plan, id, out, failed \cup {w})
             ELSE [pc |-> "drain", idx |-> i, cur |-> w,
                   out |-> IF plan[w] = "wait" THEN written ELSE out,
                   failed |-> failed]

BroadcastSet(r) ==
    /\ bcPc' = r.pc
    /\ bcIdx' = r.idx
    /\ bcCur' = r.cur
    /\ outbox' = r.out
    /\ bcFailed' = r.failed

\* IPCServer.broadcast is called (send_transcription).
Broadcast(plan) ==
    /\ starts > 0
    /\ bcPc = "idle"
    /\ bcId < MaxBroadcasts
    /\ bcId' = bcId + 1
    /\ bcPlan' = plan
    /\ bcAtBegin' = Members(clients)
    /\ BroadcastSet(BroadcastRun(1, plan, bcId + 1, outbox, {}))
    /\ UNCHANGED <<cvars, wclosed, server, listening, sockFile, starts,
                   svars>>
    /\ UNCHANGED <<tvars, hvars>>

\* The drain broadcast awaits returns or raises, and the loop goes on with
\* the next position of the list.
BroadcastDrainEnd ==
    /\ bcPc = "drain"
    /\ BroadcastSet(BroadcastRun(bcIdx + 1, bcPlan, bcId, outbox,
                        IF bcPlan[bcCur] = "waitfail"
                          THEN bcFailed \cup {bcCur}
                          ELSE bcFailed))
    /\ UNCHANGED <<bcPlan, bcId, bcAtBegin>>
    /\ UNCHANGED <<cvars, wclosed, server, listening, sockFile, starts,
                   svars>>
    /\ UNCHANGED <<tvars, hvars>>

\* Two clients that come and go while messages are broadcast.
NextBroadcast ==
    \/ ColdStart
    \/ \E c \in Conns : Connect(c)
    \/ \E c \in Conns : Eof(c)
    \/ \E plan \in [Conns -> Plans] : Broadcast(plan)
    \/ BroadcastDrainEnd

\* ------------------------------------------------------------------------
\* IPCServer.stop
\* ------------------------------------------------------------------------

SocketFileExists_Always == TRUE

\* if os.path.exists(self.socket_path)
SocketFileExists == sockFile # 0

\* for writer in self.clients: one run of stop() from position i of the list
\* as it is now: the writer there is closed and wait_closed awaited, or the
\* list is used up, clients is cleared and the server closed, and its
\* wait_closed awaited.
StopRun(p, i) ==
    IF i <= Len(clients)
      THEN /\ wclosed' = [wclosed EXCEPT ![clients[i]] = TRUE]
           /\ istopPc' = [istopPc EXCEPT ![p] = "writer"]
           /\ istopIdx' = [istopIdx EXCEPT ![p] = i]
           /\ UNCHANGED <<clients, listening>>
      ELSE /\ clients' = <<>>
           /\ listening' = listening \ {server}
           /\ istopPc' = [istopPc EXCEPT ![p] = "server"]
           /\ istopIdx' = [istopIdx EXCEPT ![p] = 0]
           /\ UNCHANGED wclosed

\* IPCServer.stop is called by DevEchoBackend.stop: _running is unset and
\* the loop over clients begins.
IPCStopBegin(p) ==
    /\ starts > 0
    /\ istopPc[p] = "idle"
    /\ p = "run" => istopPc["signal"] # "idle"
    /\ srvRunning' = FALSE
    /\ istopAtBegin' = [istopAtBegin EXCEPT ![p] = Members(clients)]
    /\ StopRun(p, 1)
    /\ UNCHANGED <<cpc, wire, buf, handlerCall, log, dedicated, fallback, sent,
                   outbox, server, sockFile, starts>>
    /\ UNCHANGED <<bvars, tvars, hvars>>

\* The shutdown branch of _process_message awaits self.stop().  The call is
\* a step after the one that read the frame; no other coroutine's step
\* depends on which of the two it follows.
FrameStop(c) ==
    /\ cpc[c] = "shutdown"
    /\ cpc' = [cpc EXCEPT ![c] = "stopping"]
    /\ srvRunning' = FALSE
    /\ istopAtBegin' = [istopAtBegin EXCEPT ![FrameStopper(c)] = Members(clients)]
    /\ StopRun(FrameStopper(c), 1)
    /\ UNCHANGED <<wire, buf, handlerCall, log, dedicated, fallback, sent,
                   outbox, server, sockFile, starts>>
    /\ UNCHANGED <<bvars, tvars, hvars>>

\* writer.wait_closed() returns in stop(), and the loop goes on with the next
\* position of the list.
WriterClosed(p) ==
    /\ istopPc[p] = "writer"
    /\ StopRun(p, istopIdx[p] + 1)
    /\ UNCHANGED <<srvRunning, cpc, wire, buf, handlerCall, log, dedicated,
                   fallback, sent, outbox, server, sockFile, starts,
                   istopAtBegin>>
    /\ UNCHANGED <<bvars, tvars, hvars>>

\* server.wait_closed() returns in stop(); the socket file is unlinked if it
\* exists (unlink raises FileNotFoundError if it does not) and stop() returns.
ServerClosed(p) ==
    /\ istopPc[p] = "server"
    /\ IF SocketFileExists
         THEN /\ istopPc' = [istopPc EXCEPT
                                ![p] = IF sockFile # 0 THEN "done" ELSE "raised"]
              /\ sockFile' = 0
         ELSE /\ istopPc' = [istopPc EXCEPT ![p] = "done"]
              /\ UNCHANGED sockFile
    /\ UNCHANGED <<cvars, wclosed, outbox, server, listening, starts, istopIdx,
                   istopAtBegin>>
    /\ UNCHANGED <<bvars, tvars, hvars>>

\* The stop() the shutdown branch awaited has returned (or raised, which the
\* try statement around _process_message logs), and the loop over the lines
\* goes on: with _running unset it ends in the finally.
FrameStopReturn(c) ==
    /\ cpc[c] = "stopping"
    /\ istopPc[FrameStopper(c)] \in {"done", "raised"}
    /\ Resume(c, buf[c], log[c])
    /\ UNCHANGED <<srvRunning, wire, dedicated, fallback, sent, server,
                   listening, sockFile, starts, svars>>
    /\ UNCHANGED <<bvars, tvars, hvars>>

Shutdown == Line("ok", "shutdown", "absent")

\* Two clients, shutdown frames and calls of stop() by the backend.
NextStop ==
    \/ ColdStart
    \/ \E c \in Conns : Connect(c)
    \/ \E c \in Conns : SendFrame(c, Shutdown)
    \/ \E c \in Conns, n \in 1..(2 * MaxFrames) : ReadChunk(c, n)
    \/ \E c \in Conns : FrameStop(c)
    \/ \E c \in Conns : FrameStopReturn(c)
    \/ \E c \in Conns : Eof(c)
    \/ \E c \in Conns : Timeout(c)
    \/ \E p \in StopCallers : IPCStopBegin(p)
    \/ \E p \in IStoppers : WriterClosed(p)
    \/ \E p \in IStoppers : ServerClosed(p)

\* Two clients and calls of start() and stop().
NextRestart ==
    \/ IPCStart
    \/ \E c \in Conns : Connect(c)
    \/ \E c \in Conns : Eof(c)
    \/ \E c \in Conns : Timeout(c)
    \/ \E p \in StopCallers : IPCStopBegin(p)
    \/ \E p \in StopCallers : WriterClosed(p)
    \/ \E p \in StopCallers : ServerClosed(p)

\* One client and the knowledge-base tags.
NextRoute ==
    \/ ColdStart
    \/ \E t \in KBTags : RegisterFallback(t)
    \/ \E t \in KBTags : RegisterDedicated(t)
    \/ Connect(1)
    \/ \E f \in KBFrames : SendFrame(1, f)
    \/ \E n \in 1..(2 * MaxFrames) : ReadChunk(1, n)
    \/ HandlerEnd(1)
    \/ Eof(1)

\* Two clients, lines that decode and lines that do not.
NextDecode ==
    \/ ColdStart
    \/ RegisterFallback("kb_list")
    \/ RegisterDedicated("kb_list")
    \/ \E c \in Conns : Connect(c)
    \/ \E c \in Conns, f \in DecodeFrames : SendFrame(c, f)
    \/ \E c \in Conns, n \in 1..(2 * MaxFrames) : ReadChunk(c, n)
    \/ \E c \in Conns : HandlerEnd(c)
    \/ \E c \in Conns : Eof(c)

\* ------------------------------------------------------------------------
\* DevEchoBackend
\*
\* start() starts the transcription service and then the IPC server; stop()
\* awaits IPCServer.stop() and then TranscriptionService.stop().  stop() is
\* run by the task the signal handler creates and by the finally of run(),
\* which run() reaches when its loop finds DevEchoBackend._running unset;
\* only DevEchoBackend.stop unsets it.
\* ------------------------------------------------------------------------

\* DevEchoBackend.start: await self.ipc_server.start(), after the
\* transcription service has been started.
BackendStartIPC ==
    /\ loopPc # "none"
    /\ ColdStart

\* An audio_data frame is read on connection c: _process_message awaits
\* _on_audio_data, which awaits process_audio.
AudioFrame(c, S, n) ==
    /\ cpc[c] = "read"
    /\ ~wclosed[c]
    /\ ProcessAudio(S, n)

\* DevEchoBackend.stop: await self.transcription_service.stop(), after
\* IPCServer.stop() has returned.
BackendStopService(p) ==
    /\ istopPc[p] = "done"
    /\ StopBegin(p)

\* One client of the backend: audio and shutdown frames, a signal.
NextBackend ==
    \/ Start
    \/ BackendStartIPC
    \/ Connect(1)
    \/ \E n \in {MIN_BUFFER_SAMPLES, buffer_threshold} : AudioFrame(1, "system", n)
    \/ SendFrame(1, Shutdown)
    \/ \E n \in 1..(2 * MaxFrames) : ReadChunk(1, n)
    \/ FrameStop(1)
    \/ FrameStopReturn(1)
    \/ Timeout(1)
    \/ LoopWake
    \/ \E outcome \in Outcomes : LoopTranscribeEnd(outcome)
    \/ LoopCallbackEnd
    \/ \E p \in StopCallers : IPCStopBegin(p)
    \/ \E p \in IStoppers : WriterClosed(p)
    \/ \E p \in IStoppers : ServerClosed(p)
    \/ \E p \in StopCallers : BackendStopService(p)
    \/ \E p \in StopCallers : StopTaskDone(p)
    \/ \E p \in StopCallers, outcome \in Outcomes : FlushTranscribeEnd(p, outcome)
    \/ \E p \in StopCallers : FlushCallbackEnd(p)
    \/ ExecutorDone

\* ---------------------------------------------------------------------
\* The handlers and the services behind them
\* ---------------------------------------------------------------------

NoReq == [kind |-> "none"]

HInit ==
    /\ hpc = "idle"
    /\ hreq = NoReq
    /\ hcalls = <<>>
    /\ hout = <<>>

\* What a call made to a collaborator was given and how it ended
\* ("pending" while it is awaited).
Call(callee, arg, outcome) == [callee |-> callee, arg |-> arg, outcome |-> outcome]

\* What the call under study returned ("return") or raised ("raise").
Result(kind, value) == [kind |-> kind, value |-> value]

\* The last call made, ended with the outcome.
EndLast(calls, outcome) ==
    [calls EXCEPT ![Len(calls)] = Call(@.callee, @.arg, outcome)]

\* ---- CloudLLMService.query ----

\* CloudLLMError and its subclasses.
CloudLLMErrors ==
    {"CloudLLMError", "BedrockUnavailableError", "BedrockAccessDeniedError",
     "CloudQueryTimeoutError"}

\* How a call of an agent's query ends: with a CloudLLMResponse, with a
\* CloudLLMError or with an exception of another class.
AgentOutcomes == {"response"} \cup CloudLLMErrors \cup {"RuntimeError"}

\* Some of IntentClassifier.RAG_KEYWORDS.
RAG_KEYWORDS == {"docs", "kb"}

\* The pieces a query text is made of, and str.lower on them.
Fragments == {"hello", "docs", "DOCS"}

Lower(w) == IF w = "DOCS" THEN "docs" ELSE w

\* The query texts: up to two pieces.
Queries == {<<>>} \cup {<<a>> : a \in Fragments}
               \cup {<<a, b>> : a \in Fragments, b \in {"hello", "kb"}}

\* ConversationContext: the transcript entries and the query text.
Contexts ==
    {[transcript |-> t, user_query |-> q] : t \in {<<>>, <<"entry">>}, q \in Queries}

\* IntentClassifier.classify: RAG when a keyword occurs in the lower-cased
\* query, SIMPLE otherwise.
Classify(query) ==
    IF \E i \in 1..Len(query) : Lower(query[i]) \in RAG_KEYWORDS
      THEN "rag" ELSE "simple"

CaughtByQuery_Any(e) == e # "response"

\* except CloudLLMError around the call of the RAG agent.
CaughtByQuery(e) == e \in CloudLLMErrors

\* CloudLLMService.query up to its first await: the intent, then the call
\* of the agent of that intent.
QueryBegin(context, force_rag) ==
    /\ hpc = "idle"
    /\ hreq' = [kind |-> "query", context |-> context, force_rag |-> force_rag]
    /\ LET intent == IF force_rag THEN "rag" ELSE Classify(context.user_query)
       IN  /\ hpc' = intent
           /\ hcalls' = <<Call(intent, context, "pending")>>
    /\ UNCHANGED <<hout, tvars, ivars>>

\* rag_agent.query ends: its response is returned, a CloudLLMError leads
\* to the call of the simple agent, another exception leaves query.
RagEnd(outcome) ==
    /\ hpc = "rag"
    /\ IF outcome = "response"
         THEN /\ hcalls' = EndLast(hcalls, outcome)
              /\ hout' = <<Result("return", outcome)>>
              /\ hpc' = "queried"
       ELSE IF CaughtByQuery(outcome)
         THEN /\ hcalls' = Append(EndLast(hcalls, outcome),
                                  Call("simple", hreq.context, "pending"))
              /\ hout' = hout
              /\ hpc' = "simple"
       ELSE /\ hcalls' = EndLast(hcalls, outcome)
            /\ hout' = <<Result("raise", outcome)>>
            /\ hpc' = "queried"
    /\ UNCHANGED <<hreq, tvars, ivars>>

\* simple_agent.query ends: what it returned or raised leaves query.
SimpleEnd(outcome) ==
    /\ hpc = "simple"
    /\ hcalls' = EndLast(hcalls, outcome)
    /\ hout' = <<Result(IF outcome = "response" THEN "return" ELSE "raise",
                        outcome)>>
    /\ hpc' = "queried"
    /\ UNCHANGED <<hreq, tvars, ivars>>

NextQuery ==
    \/ \E context \in Contexts, force_rag \in BOOLEAN : QueryBegin(context, force_rag)
    \/ \E outcome \in AgentOutcomes : RagEnd(outcome)
    \/ \E outcome \in AgentOutcomes : SimpleEnd(outcome)

\* ---- S3KBHandler.handle_kb_remove ----

DocNames == {"a.md", "b.md"}

\* How s3_manager.remove_document ends: it returns True, or raises
\* DocumentNotFoundError, S3DocumentError or an exception of another class.
RemoveOutcomes ==
    {"removed", "DocumentNotFoundError", "S3DocumentError", "RuntimeError"}

\* How kb_service.start_sync ends: with a job id, with a KBServiceError
\* (KBSyncError is one) or with an exception of another class.
SyncOutcomes ==
    {"job", "KBSyncError", "KBNotFoundError", "KBAccessDeniedError",
     "KBServiceError", "RuntimeError"}

\* KBResponseMessage(success, message, document=None); sync is the part of
\* the message that tells what became of the sync.
KBResponseMessage(success, name, sync) ==
    [msg |-> "kb_response", success |-> success, name |-> name, sync |-> sync]

\* KBErrorMessage(error, error_type); error is the exception's text.
KBErrorMessage(error, error_type) ==
    [msg |-> "kb_error", error |-> error, error_type |-> error_type]

CaughtBySync_KBSyncErrorOnly(e) == e = "KBSyncError"

\* except KBSyncError and except Exception around start_sync: every
\* exception of the call ends there.
CaughtBySync(e) == e # "job"

\* sync_message after the inner try statement.
SyncMessage(outcome) ==
    IF outcome = "job" THEN "started"
    ELSE IF outcome = "KBSyncError" THEN "skipped"
    ELSE "failed"

\* The except clauses of handle_kb_remove, in order.
RemoveError(e) ==
    IF e = "DocumentNotFoundError" THEN KBErrorMessage(e, "not_found")
    ELSE IF e = "S3DocumentError" THEN KBErrorMessage(e, "other")
    ELSE KBErrorMessage("Unexpected error: " \o e, "other")

\* handle_kb_remove up to the await of remove_document; kb_service tells
\* whether the handler was made with a knowledge-base service.
RemoveBegin(name, kb_service) ==
    /\ hpc \in {"idle", "removed"}
    /\ Len(hout) < MaxRemoves
    /\ hreq' = [kind |-> "kb_remove", name |-> name, kb_service |-> kb_service]
    /\ hcalls' = <<Call("remove_document", name, "pending")>>
    /\ hpc' = "s3_remove"
    /\ UNCHANGED <<hout, tvars, ivars>>

\* remove_document ends: an exception is answered with a KBErrorMessage;
\* after a removal start_sync is awaited when there is a service, and the
\* success response is returned when there is none.
S3RemoveEnd(outcome) ==
    /\ hpc = "s3_remove"
    /\ IF outcome # "removed"
         THEN /\ hcalls' = EndLast(hcalls, outcome)
              /\ hout' = Append(hout, Result("return", RemoveError(outcome)))
              /\ hpc' = "removed"
       ELSE IF hreq.kb_service
         THEN /\ hcalls' = Append(EndLast(hcalls, outcome),
                                  Call("start_sync", "", "pending"))
              /\ hout' = hout
              /\ hpc' = "sync"
       ELSE /\ hcalls' = EndLast(hcalls, outcome)
            /\ hout' = Append(hout, Result("return",
                                  KBResponseMessage(TRUE, hreq.name, "")))
            /\ hpc' = "removed"
    /\ UNCHANGED <<hreq, tvars, ivars>>

\* start_sync ends: the success response tells what became of the sync; an
\* exception the inner try statement let through would reach the outer
\* except clauses.
SyncEnd(outcome) ==
    /\ hpc = "sync"
    /\ hcalls' = EndLast(hcalls, outcome)
    /\ hout' = Append(hout, Result("return",
                   IF outcome = "job" \/ CaughtBySync(outcome)
                     THEN KBResponseMessage(TRUE, hreq.name, SyncMessage(outcome))
                     ELSE RemoveError(outcome)))
    /\ hpc' = "removed"
    /\ UNCHANGED <<hreq, tvars, ivars>>

NextRemove ==
    \/ \E name \in DocNames, kb_service \in BOOLEAN : RemoveBegin(name, kb_service)
    \/ \E outcome \in RemoveOutcomes : S3RemoveEnd(outcome)
    \/ \E outcome \in SyncOutcomes : SyncEnd(outcome)

\* ---- DevEchoBackend.start, _process_message and the handlers ----

\* The tags of the frames that ask for something.
RequestTags ==
    {"llm_query", "cloud_llm_query", "kb_list", "kb_add", "kb_update",
     "kb_remove", "kb_sync_status", "kb_sync_trigger"}

\* The handlers DevEchoBackend.start registers, and those
\* _register_phase2_handlers registers when Phase 2 is enabled.
Phase1Handlers ==
    {"_on_llm_query", "_on_kb_list", "_on_kb_add", "_on_kb_update",
     "_on_kb_remove"}

Phase2Handlers ==
    {"handle_cloud_llm_query", "handle_kb_list", "handle_kb_add",
     "handle_kb_update", "handle_kb_remove", "handle_sync_status",
     "handle_sync_trigger"}

\* The handler the branch of _process_message for the tag awaits, "none"
\* when the attribute it tests is None: the Phase 2 attribute first.
HandlerFor(type, phase2) ==
    IF type = "llm_query" THEN "_on_llm_query"
    ELSE IF type = "cloud_llm_query"
      THEN IF phase2 THEN "handle_cloud_llm_query" ELSE "none"
    ELSE IF type = "kb_list"
      THEN IF phase2 THEN "handle_kb_list" ELSE "_on_kb_list"
    ELSE IF type = "kb_add"
      THEN IF phase2 THEN "handle_kb_add" ELSE "_on_kb_add"
    ELSE IF type = "kb_update"
      THEN IF phase2 THEN "handle_kb_update" ELSE "_on_kb_update"
    ELSE IF type = "kb_remove"
      THEN IF phase2 THEN "handle_kb_remove" ELSE "_on_kb_remove"
    ELSE IF type = "kb_sync_status"
      THEN IF phase2 THEN "handle_sync_status" ELSE "none"
    ELSE IF type = "kb_sync_trigger"
      THEN IF phase2 THEN "handle_sync_trigger" ELSE "none"
    ELSE "none"

\* LLMQueryMessage, CloudLLMQueryMessage, KBAddMessage, KBUpdateMessage
\* and KBRemoveMessage.from_payload index the payload: KeyError on {}.
\* KBListRequestMessage uses get, and the branches of _on_kb_list and of the
\* sync tags parse nothing.
RequestPayloadRaises(type, payload) ==
    /\ type \in {"llm_query", "cloud_llm_query", "kb_add", "kb_update",
                 "kb_remove"}
    /\ payload = "empty"

\* How the call a handler makes to its service ends: "ok", an exception of
\* the classes the service raises, or an exception of another class.
ExternalOutcomes(h) ==
    IF h = "_on_llm_query"
      THEN {"ok", "OllamaUnavailableError", "QueryTimeoutError", "LLMError",
            "TypeError"}
    ELSE IF h = "_on_kb_list" THEN {"ok", "OSError"}
    ELSE IF h = "_on_kb_add"
      THEN {"ok", "InvalidMarkdownError", "DocumentExistsError", "KBError",
            "OSError"}
    ELSE IF h = "_on_kb_update"
      THEN {"ok", "DocumentNotFoundError", "InvalidMarkdownError", "KBError",
            "OSError"}
    ELSE IF h = "_on_kb_remove"
      THEN {"ok", "DocumentNotFoundError", "KBError", "OSError"}
    ELSE IF h = "handle_cloud_llm_query"
      THEN {"ok", "RuntimeError"} \cup CloudLLMErrors
    ELSE IF h = "handle_kb_list" THEN {"ok", "S3DocumentError", "RuntimeError"}
    ELSE IF h = "handle_kb_add"
      THEN {"ok", "InvalidMarkdownError", "DocumentExistsError",
            "S3DocumentError", "RuntimeError"}
    ELSE IF h = "handle_kb_update"
      THEN {"ok", "InvalidMarkdownError", "DocumentNotFoundError",
            "S3DocumentError", "RuntimeError"}
    ELSE IF h = "handle_kb_remove"
      THEN {"ok", "DocumentNotFoundError", "S3DocumentError", "RuntimeError"}
    ELSE IF h = "handle_sync_status"
      THEN {"ok", "KBNotFoundError", "KBAccessDeniedError", "KBServiceError",
            "RuntimeError"}
    ELSE {"ok", "KBSyncError", "KBNotFoundError", "KBAccessDeniedError",
          "KBServiceError", "RuntimeError"}

\* The except clauses of the handler: whether one of them matches the
\* exception.  _on_llm_query has clauses for OllamaUnavailableError and
\* LLMError, _on_kb_add, _on_kb_update and _on_kb_remove for KBError and
\* its subclasses; the other handlers end with except Exception.
Catches(h, e) ==
    IF h = "_on_llm_query"
      THEN e \in {"OllamaUnavailableError", "QueryTimeoutError", "LLMError"}
    ELSE IF h \in {"_on_kb_add", "_on_kb_update", "_on_kb_remove"}
      THEN e \in {"DocumentNotFoundError", "InvalidMarkdownError",
                  "DocumentExistsError", "KBError"}
    ELSE TRUE

\* A message a handler returns: the tag of its to_ipc_message, whether it
\* tells a success, and its error_type ("" when it has none).
Typed(tag, success, error_type) ==
    [tag |-> tag, success |-> success, error_type |-> error_type]

\* error_type in the except clauses of the Phase 2 handlers.
ErrorType(h, e) ==
    IF h = "handle_cloud_llm_query"
      THEN IF e = "BedrockAccessDeniedError" THEN "credentials"
           ELSE IF e = "BedrockUnavailableError" THEN "service_unavailable"
           ELSE IF e = "CloudQueryTimeoutError" THEN "timeout"
           ELSE "other"
    ELSE IF e = "InvalidMarkdownError" THEN "invalid_markdown"
    ELSE IF e = "DocumentExistsError" THEN "exists"
    ELSE IF e \in {"DocumentNotFoundError", "KBNotFoundError"} THEN "not_found"
    ELSE IF e = "KBAccessDeniedError" THEN "access_denied"
    ELSE "other"

\* What the handler returns when its call ended with e and e is "ok" or
\* caught.
Returned(h, e) ==
    IF h = "_on_llm_query" THEN Typed("llm_response", e = "ok", "")
    ELSE IF h = "_on_kb_list" THEN Typed("kb_list_response", e = "ok", "")
    ELSE IF h \in Phase1Handlers THEN Typed("kb_response", e = "ok", "")
    ELSE IF h = "handle_cloud_llm_query"
      THEN IF e = "ok" THEN Typed("cloud_llm_response", TRUE, "")
           ELSE Typed("cloud_llm_error", FALSE, ErrorType(h, e))
    ELSE IF h = "handle_sync_trigger" /\ e = "KBSyncError"
      THEN Typed("kb_response", FALSE, "")
    ELSE IF e # "ok" THEN Typed("kb_error", FALSE, ErrorType(h, e))
    ELSE IF h = "handle_kb_list" THEN Typed("kb_list_response", TRUE, "")
    ELSE IF h = "handle_sync_status" THEN Typed("kb_sync_status", TRUE, "")
    ELSE Typed("kb_response", TRUE, "")

\* What became of a request frame: its tag and payload, the handler awaited
\* for it ("none" without one), how the handler's call to its service ended
\* and the fate of the frame: "pending" while the handler is awaited,
\* "answered", "unregistered" (no handler, nothing done), "from_payload"
\* (from_payload raised, logged by _handle_client) or "escaped" (the
\* handler raised, logged by _handle_client).
Dispatched(type, payload, handler, outcome, fate) ==
    [type |-> type, payload |-> payload, handler |-> handler,
     outcome |-> outcome, fate |-> fate]

\* A frame written to the writer of the connection in answer to the n-th
\* request.
Reply(n, message) == [for |-> n, message |-> message]

\* DevEchoBackend.start: the Phase 1 handlers are registered, the Phase 2
\* handlers too when _init_phase2_services returned True.
BackendStart(phase2) ==
    /\ hpc = "idle"
    /\ hreq' = [kind |-> "backend", phase2 |-> phase2]
    /\ hpc' = "serving"
    /\ UNCHANGED <<hcalls, hout, tvars, ivars>>

\* _process_message for a request frame, up to the await of the handler or
\* to its end: nothing when the attribute is None, the exception of
\* from_payload, or the call of the handler.
ProcessMessage(type, payload) ==
    /\ hpc = "serving"
    /\ Len(hcalls) < MaxDispatch
    /\ LET h == HandlerFor(type, hreq.phase2)
       IN  IF h = "none"
             THEN /\ hcalls' = Append(hcalls,
                          Dispatched(type, payload, h, "", "unregistered"))
                  /\ hpc' = hpc
           ELSE IF RequestPayloadRaises(type, payload)
             THEN /\ hcalls' = Append(hcalls,
                          Dispatched(type, payload, h, "KeyError", "from_payload"))
                  /\ hpc' = hpc
           ELSE /\ hcalls' = Append(hcalls,
                        Dispatched(type, payload, h, "", "pending"))
                /\ hpc' = "handling"
    /\ UNCHANGED <<hreq, hout, tvars, ivars>>

\* The call the handler awaits ends: the handler returns a message, which
\* _process_message writes to the writer, or its exception passes through
\* the handler and _process_message to the except of _handle_client.
HandlerReturn(outcome) ==
    /\ hpc = "handling"
    /\ LET n == Len(hcalls)
           d == hcalls[n]
       IN  /\ outcome \in ExternalOutcomes(d.handler)
           /\ IF outcome = "ok" \/ Catches(d.handler, outcome)
                THEN /\ hcalls' = [hcalls EXCEPT ![n] =
                            Dispatched(d.type, d.payload, d.handler, outcome,
                                       "answered")]
                     /\ hout' = Append(hout, Reply(n, Returned(d.handler, outcome)))
                ELSE /\ hcalls' = [hcalls EXCEPT ![n] =
                            Dispatched(d.type, d.payload, d.handler, outcome,
                                       "escaped")]
                     /\ hout' = hout
    /\ hpc' = "serving"
    /\ UNCHANGED <<hreq, tvars, ivars>>

NextDispatch ==
    \/ \E phase2 \in BOOLEAN : BackendStart(phase2)
    \/ \E type \in RequestTags, payload \in {"full", "empty"} :
           ProcessMessage(type, payload)
    \/ \E h \in Phase1Handlers \cup Phase2Handlers :
           \E outcome \in ExternalOutcomes(h) : HandlerReturn(outcome)

\* ---- IPCMessage.to_json and IPCMessage.from_json ----

\* The members of the enumeration MessageType and their values.
MessageTypeMembers ==
    [AUDIO_DATA |-> "audio_data", TRANSCRIPTION |-> "transcription",
     TRANSCRIPTION_ERROR |-> "transcription_error", LLM_QUERY |-> "llm_query",
     LLM_RESPONSE |-> "llm_response", LLM_ERROR |-> "llm_error",
     CLOUD_LLM_QUERY |-> "cloud_llm_query",
     CLOUD_LLM_RESPONSE |-> "cloud_llm_response",
     CLOUD_LLM_ERROR |-> "cloud_llm_error", KB_LIST |-> "kb_list",
     KB_LIST_RESPONSE |-> "kb_list_response", KB_ADD |-> "kb_add",
     KB_UPDATE |-> "kb_update", KB_REMOVE |-> "kb_remove",
     KB_RESPONSE |-> "kb_response", KB_ERROR |-> "kb_error",
     KB_SYNC_STATUS |-> "kb_sync_status",
     KB_SYNC_TRIGGER |-> "kb_sync_trigger", PING |-> "ping", PONG |-> "pong",
     SHUTDOWN |-> "shutdown", ACK |-> "ack"]

\* The values of Python a payload is made of.  A str is a sequence of
\* pieces, each a run of plain characters or one character that JSON
\* escapes; PyFloat(n) is the float n.0; a dict is the sequence of its
\* members in insertion order.
PyStr(pieces) == [t |-> "str", pieces |-> pieces]

PyInt(n) == [t |-> "int", n |-> n]

PyFloat(n) == [t |-> "float", n |-> n]

PyBool(b) == [t |-> "bool", b |-> b]

NoneValue == [t |-> "NoneType"]

PyList(items) == [t |-> "list", items |-> items]

Member(key, value) == [key |-> key, value |-> value]

PyDict(members) == [t |-> "dict", members |-> members]

\* json.dumps (ensure_ascii) on the pieces of a str: the quotation mark,
\* the backslash and a character outside ASCII are written as escapes.
Escape(piece) ==
    IF piece = "\"" THEN "\\\""
    ELSE IF piece = "\\" THEN "\\\\"
    ELSE IF piece = "e-acute" THEN "\\u00e9"
    ELSE piece

Unescape_Keep(piece) == piece

\* json.loads on the pieces of a string.
Unescape(piece) ==
    IF piece = "\\\"" THEN "\""
    ELSE IF piece = "\\\\" THEN "\\"
    ELSE IF piece = "\\u00e9" THEN "e-acute"
    ELSE piece

\* json.dumps on a value.  A JSON text is a string of escaped pieces, a
\* number with or without a fraction part, one of the three literals, an
\* array or an object.
RECURSIVE Dumps(_)
Dumps(v) ==
    IF v.t = "str"
      THEN [j |-> "string", pieces |-> [i \in 1..Len(v.pieces) |-> Escape(v.pieces[i])]]
    ELSE IF v.t = "bool" THEN [j |-> IF v.b THEN "true" ELSE "false"]
    ELSE IF v.t = "int" THEN [j |-> "number", n |-> v.n, fraction |-> FALSE]
    ELSE IF v.t = "float" THEN [j |-> "number", n |-> v.n, fraction |-> TRUE]
    ELSE IF v.t = "NoneType" THEN [j |-> "null"]
    ELSE IF v.t = "list"
      THEN [j |-> "array", items |-> [i \in 1..Len(v.items) |-> Dumps(v.items[i])]]
    ELSE [j |-> "object",
          members |-> [i \in 1..Len(v.members) |->
                         Member([k \in 1..Len(v.members[i].key) |->
                                     Escape(v.members[i].key[k])],
                                Dumps(v.members[i].value))]]

\* json.loads on a JSON text.
RECURSIVE Loads(_)
Loads(x) ==
    IF x.j = "string"
      THEN PyStr([i \in 1..Len(x.pieces) |-> Unescape(x.pieces[i])])
    ELSE IF x.j = "true" THEN PyBool(TRUE)
    ELSE IF x.j = "false" THEN PyBool(FALSE)
    ELSE IF x.j = "null" THEN NoneValue
    ELSE IF x.j = "number" THEN IF x.fraction THEN PyFloat(x.n) ELSE PyInt(x.n)
    ELSE IF x.j = "array"
      THEN PyList([i \in 1..Len(x.items) |-> Loads(x.items[i])])
    ELSE PyDict([i \in 1..Len(x.members) |->
                   Member([k \in 1..Len(x.members[i].key) |->
                               Unescape(x.members[i].key[k])],
                          Loads(x.members[i].value))])

\* IPCMessage(type, payload); type is a member of MessageType.
IPCMessage(type, payload) == [type |-> type, payload |-> payload]

\* to_json: json.dumps({"type": self.type.value, "payload": self.payload}).
to_json(m) ==
    Dumps(PyDict(<<Member(<<"type">>, PyStr(<<MessageTypeMembers[m.type]>>)),
                 Member(<<"payload">>, m.payload)>>))

\* dict.get(key, default) on a dict.
Get(d, key, default) ==
    IF \E i \in 1..Len(d.members) : d.members[i].key = key
      THEN d.members[CHOOSE i \in 1..Len(d.members) : d.members[i].key = key].value
      ELSE default

\* from_json: json.loads, MessageType(data["type"]) and
\* data.get("payload", {}); "KeyError" without the key "type" and
\* "ValueError" for a value that no member has.
from_json(x) ==
    LET data == Loads(x)
        tag == Get(data, <<"type">>, NoneValue)
    IN  IF tag = NoneValue THEN [err |-> "KeyError"]
        ELSE IF \A name \in DOMAIN MessageTypeMembers :
                    PyStr(<<MessageTypeMembers[name]>>) # tag
          THEN [err |-> "ValueError"]
        ELSE IPCMessage(CHOOSE name \in DOMAIN MessageTypeMembers :
                            PyStr(<<MessageTypeMembers[name]>>) = tag,
                        Get(data, <<"payload">>, PyDict(<<>>)))

\* The values the payloads of the program hold: strings (with characters
\* that JSON escapes), numbers, booleans, None, lists and dicts of them.
Leaves ==
    {PyStr(<<>>), PyStr(<<"Hello world">>), PyStr(<<"caf", "e-acute", "\"", "\\">>),
     PyInt(1), PyFloat(1), PyBool(TRUE), NoneValue}

PayloadValues ==
    Leaves \cup {PyList(<<>>), PyList(<<PyInt(1), PyFloat(1)>>),
                 PyList(<<PyDict(<<Member(<<"name">>, PyStr(<<"a.md">>)),
                               Member(<<"size_bytes">>, PyInt(0))>>)>>),
                 PyDict(<<>>),
                 PyDict(<<Member(<<"e-acute">>, PyBool(FALSE))>>)}

PayloadKeys == {<<"text">>, <<"source">>}

\* The payloads: dicts of up to two members.
Payloads ==
    {PyDict(<<>>)}
        \cup {PyDict(<<Member(k, v)>>) : k \in PayloadKeys, v \in PayloadValues}
        \cup {PyDict(<<Member(p[1], v), Member(p[2], w)>>) :
                  p \in {q \in PayloadKeys \X PayloadKeys : q[1] # q[2]},
                  v \in PayloadValues, w \in Leaves}

Messages ==
    {IPCMessage(type, payload) :
         type \in DOMAIN MessageTypeMembers, payload \in Payloads}

\* A message of every tag with every payload.
CodecInit ==
    /\ hpc = "message"
    /\ hreq \in Messages
    /\ hcalls = <<>>
    /\ hout = <<>>

\* json_str = original.to_json()
Encode ==
    /\ hpc = "message"
    /\ hout' = <<Result("to_json", to_json(hreq))>>
    /\ hpc' = "encoded"
    /\ UNCHANGED <<hreq, hcalls, tvars, ivars>>

\* restored = IPCMessage.from_json(json_str)
Decode ==
    /\ hpc = "encoded"
    /\ hout' = Append(hout, Result("from_json", from_json(hout[1].value)))
    /\ hpc' = "decoded"
    /\ UNCHANGED <<hreq, hcalls, tvars, ivars>>

NextCodec == Encode \/ Decode


Init == TInit /\ IInit /\ HInit

\* The services as constructed, and a message to serialize.
InitCodec == TInit /\ IInit /\ CodecInit

Next ==
    \/ Start
    \/ \E S \in Sources, n \in ChunkSizes : ProcessAudio(S, n)
    \/ LoopWake
    \/ \E outcome \in Outcomes : LoopTranscribeEnd(outcome)
    \/ LoopCallbackEnd
    \/ \E p \in StopCallers : StopBegin(p)
    \/ \E p \in StopCallers : StopTaskDone(p)
    \/ \E p \in StopCallers, outcome \in Outcomes : FlushTranscribeEnd(p, outcome)
    \/ \E p \in StopCallers : FlushCallbackEnd(p)
    \/ ExecutorDone

Spec == Init /\ [][Next]_vars

SpecRoute == Init /\ [][NextRoute]_vars

SpecDecode == Init /\ [][NextDecode]_vars

SpecBroadcast == Init /\ [][NextBroadcast]_vars

SpecStop == Init /\ [][NextStop]_vars

SpecRestart == Init /\ [][NextRestart]_vars

SpecBackend == Init /\ [][NextBackend]_vars

SpecQuery == Init /\ [][NextQuery]_vars

SpecRemove == Init /\ [][NextRemove]_vars

SpecDispatch == Init /\ [][NextDispatch]_vars

SpecCodec == InitCodec /\ [][NextCodec]_vars

\* The event loop resumes a coroutine whose sleep, call or callback is over;
\* an engine call and a callback come to an end.
FairSpec ==
    /\ Spec
    /\ WF_vars(LoopWake)
    /\ WF_vars(\E outcome \in Outcomes : LoopTranscribeEnd(outcome))
    /\ WF_vars(LoopCallbackEnd)

\* The event loop resumes every coroutine of the backend whose await is
\* over, and every engine call, callback and wait_closed comes to an end;
\* run() tests _running once a second.  Nothing obliges a client to send a
\* frame or the operating system to deliver a signal.
FairBackend ==
    /\ SpecBackend
    /\ WF_vars(LoopWake)
    /\ WF_vars(\E outcome \in Outcomes : LoopTranscribeEnd(outcome))
    /\ WF_vars(LoopCallbackEnd)
    /\ WF_vars(\E n \in 1..(2 * MaxFrames) : ReadChunk(1, n))
    /\ WF_vars(FrameStop(1))
    /\ WF_vars(FrameStopReturn(1))
    /\ WF_vars(Timeout(1))
    /\ WF_vars(IPCStopBegin("run"))
    /\ \A p \in IStoppers : WF_vars(WriterClosed(p))
    /\ \A p \in IStoppers : WF_vars(ServerClosed(p))
    /\ \A p \in StopCallers : WF_vars(BackendStopService(p))
    /\ \A p \in StopCallers : WF_vars(StopTaskDone(p))
    /\ \A p \in StopCallers :
           WF_vars(\E outcome \in Outcomes : FlushTranscribeEnd(p, outcome))
    /\ \A p \in StopCallers : WF_vars(FlushCallbackEnd(p))
    /\ WF_vars(ExecutorDone)

\* ------------------------------------------------------------------------
\* Properties of the transcription service
\* ------------------------------------------------------------------------

IsTick(w) == w.by = "loop"

IsFlush(w) == w.by # "loop"

\* The windows the periodic loop removed from the buffer of S, in order.
TickWindows(S) == SelectSeq(extracted[S], IsTick)

NoDup(seq) == \A i, j \in 1..Len(seq) : i # j => seq[i] # seq[j]

Other(S) == CHOOSE T \in Sources : T # S

\* A window of S was removed by the loop in this step.
TookTick(S) ==
    /\ Len(extracted'[S]) = Len(extracted[S]) + 1
    /\ extracted'[S][Len(extracted'[S])].by = "loop"

\* The call the loop awaits ends in this step (it returns or raises).
LoopCallEnds ==
    /\ inflight["loop"] # NoCall
    /\ inflight["loop"].wid \notin ended[inflight["loop"].src]
    /\ inflight["loop"].wid \in ended'[inflight["loop"].src]

\* The position of list(AudioSource) from which the loop examines the
\* buffers in this step; 0 when the step examines none.
ScanPos ==
    IF stopPc' # stopPc THEN 0
    ELSE IF loopPc = "sleep" /\ loopPc' # "sleep" THEN 1
    ELSE IF LoopCallEnds /\ loopPc' # "callback" THEN loopIdx + 1
    ELSE IF loopPc = "callback" /\ loopPc' # "callback" THEN loopIdx + 1
    ELSE 0

\* The loop reaches position k in this step: every source before it, from
\* the position the step starts at, has less than a window.
Examined(k) ==
    /\ ScanPos # 0
    /\ k >= ScanPos
    /\ \A m \in ScanPos..(k - 1) :
          Len(buffers[AudioSource[m]]) < buffer_threshold

\* C1: before shutdown, for each source, the windows removed from its
\* buffer, in removal order, followed by the samples still buffered are
\* exactly the samples appended to it, in arrival order: nothing is dropped,
\* duplicated or reordered.
C1_FifoPreserved ==
    \A S \in Sources :
        ~StopCalled =>
            Samples(extracted[S]) \o buffers[S] = Range(1, appended[S])

\* A window was removed, samples arrived in a second chunk and some are
\* still buffered.
C1_Witness ==
    \E S \in Sources :
        /\ ~StopCalled
        /\ Len(extracted[S]) = 1
        /\ buffers[S] # <<>>
        /\ chunks = 2

C2_TickStep(k) ==
    LET S == AudioSource[k]
    IN  /\ TookTick(S) =>
              /\ Examined(k)
              /\ Len(buffers[S]) >= buffer_threshold
              /\ extracted'[S][Len(extracted'[S])].samples
                    = SubSeq(buffers[S], 1, buffer_threshold)
              /\ Len(extracted'[S][Len(extracted'[S])].samples)
                    = buffer_threshold
              /\ buffers'[S]
                    = SubSeq(buffers[S], buffer_threshold + 1, Len(buffers[S]))
        /\ (Examined(k) /\ Len(buffers[S]) >= buffer_threshold) => TookTick(S)
        /\ (Examined(k) /\ Len(buffers[S]) < buffer_threshold) =>
              buffers'[S] = buffers[S]

\* C2: a tick that examines source S removes a window from it if and only
\* if its buffer holds at least buffer_threshold samples; the window is the
\* first buffer_threshold samples, the rest stays buffered, a shorter buffer
\* is left untouched; the windows of a source never share a sample.
\* The tick that finds the source at position k the first to hold a window
\* removes a window from it.
C2_TickTakes(k) ==
    (/\ loopPc = "sleep"
     /\ Len(buffers[AudioSource[k]]) >= buffer_threshold
     /\ \A m \in 1..(k - 1) : Len(buffers[AudioSource[m]]) < buffer_threshold)
        => ENABLED (LoopWake /\ TookTick(AudioSource[k]))

C2_WindowSizing ==
    /\ [](\A S \in Sources : NoDup(Samples(TickWindows(S))))
    /\ [](\A k \in 1..Len(AudioSource) : C2_TickTakes(k))
    /\ [][\A k \in 1..Len(AudioSource) : C2_TickStep(k)]_vars

\* One pass took a window of the first source and, once its call had ended,
\* examined the second source, which held less than a window, and slept.
C2_Witness ==
    /\ Len(TickWindows("system")) = 1
    /\ ended["system"] = {1}
    /\ Len(buffers["microphone"]) = 1
    /\ extracted["microphone"] = <<>>
    /\ loopPc = "sleep"
    /\ ~StopCalled

\* The calls for S that have begun and not finished: those a coroutine
\* awaits and the one a cancelled coroutine left running in the executor.
CallsInFlight(S) ==
    {o \in Owners : inflight[o].src = S}
        \cup (IF executor = S THEN {"executor"} ELSE {})

\* C3: at most one transcription call per source is in flight: no call for
\* a source begins while an earlier call for it has not finished.
C3_SingleFlight == \A S \in Sources : Cardinality(CallsInFlight(S)) <= 1

\* C4: when engine.transcribe raises for a window of the loop, the error is
\* logged and swallowed and the loop keeps running; a window that ends with
\* text is handed to the callback.
C4_Step ==
    LoopCallEnds =>
        LET call == inflight["loop"]
            S    == call.src
        IN  /\ lastResult'.outcome = "raise" =>
                  /\ errors' = errors + 1
                  /\ loopPc' \in {"sleep", "await"}
                  /\ running'
                  /\ emitted' = emitted
            /\ lastResult'.outcome = "text" =>
                  /\ emitted'[S] = Append(emitted[S], call.wid)
                  /\ errors' = errors

\* After a call for S raised, a window of S that is ready goes to the engine
\* unless stop() is called first.
C4_LaterWindow(S) ==
    (/\ lastResult.outcome = "raise"
     /\ lastResult.src = S
     /\ inflight["loop"] = NoCall
     /\ Len(buffers[S]) >= buffer_threshold)
        ~> (StopCalled \/ inflight["loop"].src = S)

C4_FailureIsolated ==
    /\ [](~StopCalled /\ running => LoopAlive)
    /\ [][C4_Step]_vars
    /\ \A S \in Sources : C4_LaterWindow(S)

\* The first window of a source raised, its second window was transcribed
\* and emitted.
C4_Witness ==
    \E S \in Sources :
        /\ started[S] = <<1, 2>>
        /\ ended[S] = {1, 2}
        /\ emitted[S] = <<2>>
        /\ errors = 1
        /\ started[Other(S)] = <<>>

\* The calls _flush_buffers made for S.
FlushCalls(S) ==
    {i \in 1..Len(extracted[S]) :
        /\ IsFlush(extracted[S][i])
        /\ Len(extracted[S][i].samples) >= MIN_BUFFER_SAMPLES}

\* C5: when stop() is called while a source holds a partial buffer of at
\* least MIN_BUFFER_SAMPLES and less than a window, exactly one final
\* transcription call is made for that source and it has completed when
\* stop() returns.
C5_FinalFlush ==
    \A p \in StopCallers : \A S \in stopSeen[p] :
        stopPc[p] = "done" =>
            /\ Cardinality(FlushCalls(S)) = 1
            /\ FlushCalls(S) \subseteq ended[S]

\* C6: while a call of the loop for one source is outstanding and
\* the other source holds a window, the periodic tick can run (and drain it).
C6_TickNotPostponed ==
    \A S \in Sources :
        (inflight["loop"].src = S /\ Len(buffers[Other(S)]) >= buffer_threshold)
            => ENABLED LoopWake

\* C7: the lock is not held while a transcription call is in flight, and
\* process_audio can run for either source.
C7_AppendNotBlocked ==
    \A o \in Owners :
        inflight[o] # NoCall =>
            /\ lock = "free"
            /\ chunks < MaxChunks =>
                  \A S \in Sources : ENABLED ProcessAudio(S, 1)

\* A chunk was appended to the source of a call while the call was in flight.
C7_Witness ==
    \E o \in Owners :
        /\ inflight[o] # NoCall
        /\ appended[inflight[o].src] > inflight[o].at
        /\ buffers[inflight[o].src] # <<>>

IsSorted(seq) == \A i, j \in 1..Len(seq) : i < j => seq[i] < seq[j]

\* The windows of S that went to engine.transcribe, in removal order.
CalledWindows(S) ==
    SelectSeq([i \in 1..Len(extracted[S]) |-> i],
              LAMBDA i : \/ IsTick(extracted[S][i])
                         \/ Len(extracted[S][i].samples) >= MIN_BUFFER_SAMPLES)

\* C8: for each source, calls are started and results emitted in the order
\* in which the windows were removed from the buffer.
C8_OrderPreserved ==
    \A S \in Sources :
        /\ started[S] = CalledWindows(S)
        /\ IsSorted(emitted[S])

\* ------------------------------------------------------------------------
\* Properties of the IPC server
\* ------------------------------------------------------------------------

\* The places of the entries this step adds to the log of c.
NewEntries(c) == (Len(log[c]) + 1)..Len(log'[c])

\* The calls of the Phase 1 handler of tag t so far.
FallbackCalls(t) ==
    {<<c, i, k>> \in Conns \X (1..MaxFrames + 1) \X (1..2) :
        /\ i <= Len(log[c])
        /\ log[c][i].type = t
        /\ k <= Len(log[c][i].ran)
        /\ log[c][i].ran[k] = "fallback"}

C9_DispatchStep(c) ==
    /\ \A i \in 1..Len(log[c]) :
          /\ i <= Len(log'[c])
          /\ log'[c][i].type = log[c][i].type
    /\ \A i \in NewEntries(c) :
          LET e == log'[c][i]
          IN  (e.type \in KBTags /\ e.ran # <<>>) =>
                  e.ran = IF dedicated[e.type] THEN <<"dedicated">>
                          ELSE <<"fallback">>
    /\ \A i \in NewEntries(c) :
          LET e == log'[c][i]
          IN  (e.type \in KBTags /\ e.err = "none" /\ e.ran = <<>>) =>
                  (~dedicated[e.type] /\ ~fallback[e.type])

\* C9: a kb_list, kb_add, kb_update or kb_remove message executes at most
\* one handler: the Phase 2 handler when one is registered as the message is
\* dispatched, else the Phase 1 handler; once the Phase 2 handler of a tag
\* is registered the Phase 1 handler of that tag is not called again.
C9_DedicatedOverridesFallback ==
    /\ [](\A c \in Conns : \A i \in 1..Len(log[c]) : Len(log[c][i].ran) <= 1)
    /\ [][\A c \in Conns : C9_DispatchStep(c)]_vars
    /\ [][\A t \in KBTags :
             dedicated[t] =>
                 /\ dedicated'[t]
                 /\ FallbackCalls(t)' = FallbackCalls(t)]_vars

\* The first message of a tag went to the Phase 1 handler, the Phase 2
\* handler was registered, and the second went to the Phase 2 handler alone.
C9_Witness ==
    \E t \in KBTags :
        /\ Len(log[1]) = 2
        /\ log[1][1].type = t /\ log[1][1].ran = <<"fallback">>
        /\ log[1][2].type = t /\ log[1][2].ran = <<"dedicated">>
        /\ fallback[t] /\ dedicated[t]

\* The frame did not decode: from_json raised.
DecodeFailed(e) == e.type = ""

C10_ErrorStep(c) ==
    (\E i \in NewEntries(c) : DecodeFailed(log'[c][i])) =>
        /\ cpc'[c] \in {"read", "handler"}
        /\ \E k \in 1..Len(clients') : clients'[k] = c
        /\ cpc'[c] = "read" => FirstNL(buf'[c]) = 0
        /\ \A d \in Conns \ {c} :
              /\ cpc'[d] = cpc[d]
              /\ log'[d] = log[d]
              /\ buf'[d] = buf[d]
              /\ wire'[d] = wire[d]

\* C10: a frame that fails to decode (malformed JSON, no type, unknown type)
\* is skipped: no handler is executed for it, its connection stays open, the
\* lines after it are processed and the bytes that arrive later can be read;
\* the other connections are not touched.
C10_DecodeErrorSkipped ==
    /\ [](\A c \in Conns : \A i \in 1..Len(log[c]) :
             DecodeFailed(log[c][i]) =>
                 /\ log[c][i].ran = <<>>
                 /\ log[c][i].err \in {"JSONDecodeError", "KeyError", "ValueError"})
    /\ [](\A c \in Conns :
             (/\ wire[c] # <<>>
              /\ \E i \in 1..Len(log[c]) : DecodeFailed(log[c][i])
              /\ handlerCall[c] = NoHandler)
                 => ENABLED ReadChunk(c, Len(wire[c])))
    /\ [][\A c \in Conns : C10_ErrorStep(c)]_vars

\* On one connection a frame failed to decode and the frame after it was
\* dispatched to a handler.
C10_Witness ==
    \E c \in Conns :
        /\ Len(log[c]) = 2
        /\ DecodeFailed(log[c][1])
        /\ log[c][2].type = "kb_list"
        /\ log[c][2].ran # <<>>
        /\ cpc[c] # "closed"

\* ------------------------------------------------------------------------
\* C11
\* ------------------------------------------------------------------------

\* The PONG messages written to connection c.
Pongs(c) == SelectSeq(outbox[c], LAMBDA w : w.type = "pong")

\* The ping frames of connection c processed so far.
Pings(c) == SelectSeq(log[c], LAMBDA e : e.type = "ping")

\* C11: at every moment each connection has been written exactly one PONG
\* for each ping frame processed on it, no more and no fewer, so the PONG of
\* a ping is written before the next frame of the connection is processed;
\* every PONG has the empty payload, and no handler is called for a ping.
C11_PingAnswered ==
    \A c \in Conns :
        /\ Len(Pongs(c)) = Len(Pings(c))
        /\ \A i \in 1..Len(Pongs(c)) : Pongs(c)[i] = Msg("pong", "empty", 0)
        /\ \A i \in 1..Len(Pings(c)) :
               Pings(c)[i].ran = <<>> /\ Pings(c)[i].err = "none"

\* A ping was answered and a later frame of the same connection processed,
\* while the other connection, which sent no ping, was still open.
C11_Witness ==
    \E c \in Conns :
        /\ Len(log[c]) >= 2
        /\ log[c][1].type = "ping"
        /\ Len(Pongs(c)) = 1
        /\ \E d \in Conns \ {c} : cpc[d] = "read" /\ outbox[d] = <<>>

\* ------------------------------------------------------------------------
\* C12, C13, C14
\* ------------------------------------------------------------------------

\* The connections that were in clients when the last broadcast began and
\* still are: none of them was removed or closed while it ran.
OpenThroughout == {c \in bcAtBegin : c \in Members(clients) /\ ~wclosed[c]}

\* How often the last broadcast wrote its message to connection c.
TimesWritten(c) ==
    Len(SelectSeq(outbox[c], LAMBDA w : w = Msg("transcription", "full", bcId)))

\* C12: when a broadcast in which no write raised has returned, its message
\* has been written exactly once to every connection that was open from its
\* beginning to its end, whatever was accepted or removed meanwhile.
C12_BroadcastReachesAll ==
    (bcId > 0 /\ bcPc = "idle" /\ bcFailed = {})
        => \A c \in OpenThroughout : TimesWritten(c) = 1

\* C13: when a broadcast in which a write raised has returned, its message
\* has been written exactly once to every other connection that was open
\* from its beginning to its end.
C13_FailureIsolated ==
    (bcId > 0 /\ bcPc = "idle" /\ bcFailed # {})
        => \A c \in OpenThroughout \ bcFailed : TimesWritten(c) = 1

\* C14: when a broadcast has returned, every connection whose write raised
\* in it has left clients and has had its writer closed.
C14_FailedRemoved ==
    (bcId > 0 /\ bcPc = "idle")
        => \A c \in bcFailed : c \notin Members(clients) /\ wclosed[c]

\* ------------------------------------------------------------------------
\* C15, C16, C17, C18
\* ------------------------------------------------------------------------

\* The state stop() is to leave: no connection in clients, no server
\* accepting, no file at socket_path.
Stopped ==
    /\ ~srvRunning
    /\ clients = <<>>
    /\ listening = {}
    /\ sockFile = 0

\* C15: once a stop() called by the backend has returned, every connection
\* that was open when it was called has had its writer closed, and the
\* server is stopped, however the read loops ran their own cleanup while
\* stop() was suspended.
C15_StopClosesAll ==
    \A p \in StopCallers :
        istopPc[p] = "done"
            => /\ \A c \in istopAtBegin[p] : wclosed[c]
               /\ Stopped

\* C16: no call of stop() raises, and from the return of the first stop()
\* on the server stays stopped whatever the calls of stop() that overlap it
\* or follow it do.
C16_StopIdempotent ==
    /\ \A p \in IStoppers : istopPc[p] # "raised"
    /\ (\E p \in IStoppers : istopPc[p] = "done") => Stopped

\* Two calls of stop() by the backend have returned, the second of which
\* began while connections were still in clients, before the first returned.
C16_Witness ==
    /\ istopPc["signal"] = "done"
    /\ istopPc["run"] = "done"
    /\ istopAtBegin["run"] # {}
    /\ Stopped

C17_Step ==
    (srvRunning /\ starts' = starts + 1)
        => /\ listening' = listening
           /\ sockFile' = sockFile
           /\ server' = server
           /\ clients' = clients

\* C17: a call of start() on a running server changes neither the set of
\* listening servers, nor the server bound to the socket file, nor
\* self.server, nor the open connections.
C17_StartWhileRunning == [][C17_Step]_vars

\* C18: once the stop() awaited for a shutdown frame has returned, every
\* connection that was open when the frame was processed, the sender's
\* among them, has had its writer closed, and the server is stopped.
C18_ShutdownFrameStops ==
    \A c \in Conns :
        istopPc[FrameStopper(c)] = "done"
            => /\ wclosed[c]
               /\ \A d \in istopAtBegin[FrameStopper(c)] : wclosed[d]
               /\ Stopped

\* ------------------------------------------------------------------------
\* C19, C20
\* ------------------------------------------------------------------------

\* A shutdown frame has been processed on some connection.
ShutdownFrameSeen ==
    \E c \in Conns : \E i \in 1..Len(log[c]) : log[c][i].type = "shutdown"

\* DevEchoBackend.stop, awaited by the finally of run(), has stopped the
\* transcription service: run() returns.
RunReturned == stopPc["run"] = "done"

\* C19: after a shutdown frame has been processed the backend eventually
\* goes through its whole shutdown: the transcription service is stopped
\* by DevEchoBackend.stop and run() returns.
C19_ShutdownFrameStopsBackend == ShutdownFrameSeen ~> RunReturned

\* C20: while DevEchoBackend.stop delivers the text of the final flush to
\* the transcription callback, every connection that was open when that
\* stop() was called is still in clients with its writer open.
C20_FlushBeforeClose ==
    \A p \in StopCallers :
        stopPc[p] = "callback"
            => \A c \in istopAtBegin[p] :
                   c \in Members(clients) /\ ~wclosed[c]

\* ------------------------------------------------------------------------
\* C26, C27, C28, C29, C30
\* ------------------------------------------------------------------------

\* C26: every window that went to engine.transcribe has come to an end in
\* _transcribe_buffer (emitted, skipped as silence or logged as an error) or
\* is still awaited by the coroutine that removed it.
C26_WindowProcessed ==
    \A S \in Sources : \A i \in 1..Len(started[S]) :
        \/ started[S][i] \in ended[S]
        \/ \E o \in Owners :
               inflight[o].src = S /\ inflight[o].wid = started[S][i]

\* C27: no step removes samples from a buffer that holds fewer than
\* MIN_BUFFER_SAMPLES: the shutdown flush leaves such a buffer as it is.
C27_ShortBufferKept ==
    [][\A S \in Sources :
           Len(buffers[S]) < MIN_BUFFER_SAMPLES
               => Len(buffers'[S]) >= Len(buffers[S])]_vars

C28_Step ==
    StopCalled =>
        /\ ~running'
        /\ loopPc' = "done"
        /\ inflight'["loop"] = NoCall
        /\ \A S \in Sources :
              /\ SelectSeq(extracted'[S], IsTick) = TickWindows(S)
              /\ \A i \in (Len(started[S]) + 1)..Len(started'[S]) :
                     IsFlush(extracted'[S][started'[S][i]])

ChunkFor(S) ==
    /\ chunks' = chunks + 1
    /\ \A T \in Sources \ {S} :
          /\ appended'[T] = appended[T]
          /\ buffer_timestamps'[T] = buffer_timestamps[T]

\* The step records a timestamp for S.
Recorded(S) == buffer_timestamps[S] = Absent /\ buffer_timestamps'[S] # Absent

\* C29: every call of process_audio records the timestamp of its chunk for
\* its source if and only if the buffer of that source was empty just before
\* the append.
C29_TimestampOnEmpty ==
    [][chunks' = chunks + 1
           => \E S \in Sources :
                  ChunkFor(S) /\ (Recorded(S) <=> buffers[S] = <<>>)]_vars

\* A call for a window of S ends in this step.
CallEnds(S) == ended'[S] # ended[S]

C30_Step(S) ==
    /\ CallEnds(S) =>
          /\ lastResult'.src = S
          /\ lastResult'.wid \in ended'[S] \ ended[S]
          /\ emitted'[S] = IF lastResult'.outcome = "text"
                             THEN Append(emitted[S], lastResult'.wid)
                             ELSE emitted[S]
    /\ ~CallEnds(S) => emitted'[S] = emitted[S]

\* C30: the callback is called once for a window when its call returns
\* text, at that moment, and at no other: not for a window whose call
\* returns empty text or raises, and never twice for a window.
C30_CallbackOncePerText ==
    /\ [](\A S \in Sources : NoDup(emitted[S]))
    /\ [][\A S \in Sources : C30_Step(S)]_vars

\* One window of a source was handed to the callback and another window of
\* it ended without text.
C30_Witness ==
    \E S \in Sources :
        /\ Len(emitted[S]) = 1
        /\ Cardinality(ended[S]) = 2


\* ---- C23 ----

\* The agents CloudLLMService.query has called, in order.
Agents == [i \in 1..Len(hcalls) |-> hcalls[i].callee]

RagRaisedCloudLLMError ==
    /\ hcalls # <<>>
    /\ hcalls[1].callee = "rag"
    /\ hcalls[1].outcome \in CloudLLMErrors

\* C23: CloudLLMService.query calls the RAG agent first exactly when
\* force_rag is set or the query is classified RAG; once query is over, the
\* simple agent has been called exactly when the query was classified
\* SIMPLE without force_rag or the RAG agent raised a CloudLLMError; in that
\* last case it was called once, after the RAG agent, with the context
\* query was given, and what it returned or raised is what query returns
\* or raises.
C23_RagFirstThenFallback ==
    hpc \in {"rag", "simple", "queried"} =>
        LET wantsRag == hreq.force_rag \/ Classify(hreq.context.user_query) = "rag"
        IN  /\ Agents[1] = "rag" <=> wantsRag
            /\ hcalls[1].arg = hreq.context
            /\ hpc = "queried" =>
                 /\ (\E i \in 1..Len(Agents) : Agents[i] = "simple")
                        <=> (~wantsRag \/ RagRaisedCloudLLMError)
                 /\ hout = <<Result(IF hcalls[Len(hcalls)].outcome = "response"
                                      THEN "return" ELSE "raise",
                                    hcalls[Len(hcalls)].outcome)>>
            /\ RagRaisedCloudLLMError =>
                 /\ Agents = <<"rag", "simple">>
                 /\ hcalls[2].arg = hreq.context
            /\ ~RagRaisedCloudLLMError => Len(Agents) = 1

C23_Witness ==
    /\ hpc = "queried"
    /\ hreq.force_rag
    /\ Classify(hreq.context.user_query) = "simple"
    /\ RagRaisedCloudLLMError
    /\ hcalls[2].outcome = "BedrockUnavailableError"
    /\ hout = <<Result("raise", "BedrockUnavailableError")>>



\* ---- C25 ----

\* The reply of the call of handle_kb_remove that has just ended.
LastReply == hout[Len(hout)].value

\* C25: handle_kb_remove calls start_sync only as its second call, after
\* remove_document has returned, and makes no call after a remove_document
\* that raised; once the removal has succeeded the reply is the success
\* response for the document, however start_sync ends, and after a failed
\* removal the reply is a KBErrorMessage.
C25_SyncAfterRemoval ==
    hpc \in {"s3_remove", "sync", "removed"} =>
        /\ hcalls[1].callee = "remove_document"
        /\ hcalls[1].arg = hreq.name
        /\ \A i \in 1..Len(hcalls) :
               hcalls[i].callee = "start_sync" =>
                   i = 2 /\ hcalls[1].outcome = "removed"
        /\ hcalls[1].outcome \notin {"removed", "pending"} => Len(hcalls) = 1
        /\ hpc = "removed" =>
               /\ hout[Len(hout)].kind = "return"
               /\ IF hcalls[1].outcome = "removed"
                    THEN /\ LastReply.msg = "kb_response"
                         /\ LastReply.success
                         /\ LastReply.name = hreq.name
                    ELSE LastReply.msg = "kb_error"

C25_Witness ==
    /\ hpc = "removed"
    /\ Len(hcalls) = 2
    /\ hcalls[2].callee = "start_sync"
    /\ hcalls[2].outcome = "RuntimeError"
    /\ LastReply = KBResponseMessage(TRUE, hreq.name, "failed")
    /\ Len(hout) = 2
    /\ hout[1].value.msg = "kb_error"



\* ---- C21 ----

\* The frames written in answer to the n-th request.
RepliesTo(n) == SelectSeq(hout, LAMBDA r : r.for = n)

\* C21: once _process_message is over for a request frame received on an
\* open connection, exactly one frame has been written to the connection
\* in answer to it, a response or a typed error.
C21_RequestAnswered ==
    hpc \in {"serving", "handling"} =>
        \A n \in 1..Len(hcalls) :
            hcalls[n].fate # "pending" =>
                /\ Len(RepliesTo(n)) = 1
                /\ RepliesTo(n)[1].message.tag \in MessageType

\* ---- C22 ----

\* C22: the exception of the call a registered handler makes never leaves
\* the handler: every handler that was awaited and is over has returned a
\* message.
C22_HandlerNeverRaises ==
    hpc \in {"serving", "handling"} =>
        \A n \in 1..Len(hcalls) : hcalls[n].fate # "escaped"



\* ---- C24 ----

Serving == {c \in Conns : cpc[c] \in {"read", "handler", "shutdown", "stopping"}}

\* C31: self.clients holds exactly the accepted connections whose cleanup
\* has not yet run, each at most once, and the clients.remove(writer) of a
\* cleanup never fails to find its writer, whatever stop() and broadcast()
\* do in between.
C31_ConnectionSetExact ==
    /\ Members(clients) = Serving
    /\ Cardinality(Members(clients)) = Len(clients)
    /\ \A c \in Conns : cpc[c] # "crashed"


\* ---- C32 ----

\* reader.read of connection c returns b"" (or raises) in this step: c was
\* suspended in the read with nothing left to deliver or with its transport
\* closed, and its loop is left without a byte being consumed.
EofStep(c) ==
    /\ cpc[c] = "read"
    /\ wire[c] = <<>> \/ wclosed[c]
    /\ cpc'[c] # "read"
    /\ wire'[c] = wire[c]

\* C32: when the read of a connection ends with EOF or a transport error,
\* its loop ends and its cleanup runs: after the step the connection is not
\* in self.clients and its writer is closed, and every other connection is
\* where it was, in the list or not as before.
C32_EofCleansUp ==
    [][\A c \in Conns : EofStep(c) =>
          /\ cpc'[c] \in {"closed", "crashed"}
          /\ c \notin Members(clients')
          /\ wclosed'[c]
          /\ \A d \in Conns \ {c} :
                /\ cpc'[d] = cpc[d]
                /\ wclosed'[d] = wclosed[d]
                /\ (d \in Members(clients')) = (d \in Members(clients))]_vars


\* ---- C33 ----

\* IPCServer.stop() has been called by someone.
IPCStopCalled == \E p \in IStoppers : istopPc[p] # "idle"

\* The task of connection c is over and its finally clause was left by the
\* ValueError of clients.remove(writer): writer.close() and wait_closed()
\* were not run and never will be.
CleanupAbandoned(c) == cpc[c] = "crashed"

\* C33: after IPCServer.stop() the read loop of every connection ends and
\* its cleanup completes; no connection is left with its loop over and its
\* cleanup cut short, a state from which the cleanup can no longer complete.
C33_StopCompletesCleanup ==
    IPCStopCalled => \A c \in Conns : ~CleanupAbandoned(c)


\* ---- C38 ----

\* The lines the clients send when the shutdown frame is examined: the
\* shutdown frame and a request that has a handler.
ShutdownFrames == {Shutdown, Line("ok", "kb_list", "full")}

\* Two clients, shutdown frames and requests, DevEchoBackend's handler for
\* kb_list registered.
NextShutdown ==
    \/ ColdStart
    \/ RegisterFallback("kb_list")
    \/ \E c \in Conns : Connect(c)
    \/ \E c \in Conns, f \in ShutdownFrames : SendFrame(c, f)
    \/ \E c \in Conns, n \in 1..(2 * MaxFrames) : ReadChunk(c, n)
    \/ \E c \in Conns : HandlerEnd(c)
    \/ \E c \in Conns : FrameStop(c)
    \/ \E c \in Conns : FrameStopReturn(c)
    \/ \E c \in Conns : Eof(c)
    \/ \E c \in Conns : Timeout(c)
    \/ \E c \in Conns : WriterClosed(FrameStopper(c))
    \/ \E c \in Conns : ServerClosed(FrameStopper(c))

SpecShutdown == Init /\ [][NextShutdown]_vars

\* C38: once IPCServer.stop() has been called, for a shutdown frame or by
\* the backend, no connection begins to execute a handler for a further
\* frame, the frames that came in the same read as the shutdown frame
\* included.
C38_NoHandlerAfterStop ==
    [][IPCStopCalled =>
          \A c \in Conns : cpc'[c] = "handler" => cpc[c] = "handler"]_vars


\* ---- C34 ----

\* The lines the client sends when the framing is examined: one that does
\* not decode, one without a handler and one with a handler.
FramingFrames ==
    {Garbage, Line("ok", "ping", "full"), Line("ok", "kb_list", "full")}

\* A connected client sends a line in two parts and then its newline.
SendSplit(c, f) ==
    /\ cpc[c] \in {"read", "handler"}
    /\ sent < MaxFrames
    /\ sent' = sent + 1
    /\ wire' = [wire EXCEPT ![c] = @ \o <<Frag(f, 1), Frag(f, 2), NL>>]
    /\ UNCHANGED <<srvRunning, clients, cpc, buf, handlerCall, log, dedicated,
                   fallback>>
    /\ UNCHANGED <<lvars, bvars, tvars, hvars>>

\* A connected client sends a newline alone: an empty line.
SendEmptyLine(c) ==
    /\ cpc[c] \in {"read", "handler"}
    /\ sent < MaxFrames
    /\ sent' = sent + 1
    /\ wire' = [wire EXCEPT ![c] = Append(@, NL)]
    /\ UNCHANGED <<srvRunning, clients, cpc, buf, handlerCall, log, dedicated,
                   fallback>>
    /\ UNCHANGED <<lvars, bvars, tvars, hvars>>

\* One client; whole lines, lines in two parts and empty lines, read in
\* chunks of every size.
NextFraming ==
    \/ ColdStart
    \/ RegisterFallback("kb_list")
    \/ Connect(1)
    \/ \E f \in FramingFrames : SendFrame(1, f)
    \/ \E f \in FramingFrames : SendSplit(1, f)
    \/ SendEmptyLine(1)
    \/ \E n \in 1..(3 * MaxFrames) : ReadChunk(1, n)
    \/ HandlerEnd(1)
    \/ Eof(1)

SpecFraming == Init /\ [][NextFraming]_vars

\* The newline-terminated lines of a run of bytes, in order; cur is the
\* line being collected.  What follows the last newline is no line.
RECURSIVE LinesOf(_, _)
LinesOf(bytes, cur) ==
    IF bytes = <<>> THEN <<>>
    ELSE IF Head(bytes) = NL
      THEN <<cur>> \o LinesOf(Tail(bytes), <<>>)
    ELSE LinesOf(Tail(bytes), Append(cur, Head(bytes)))

\* The frames of a run of bytes: its lines that are not empty.
FramesOf(bytes) == SelectSeq(LinesOf(bytes, <<>>), LAMBDA l : l # <<>>)

\* C34: however the bytes of a connection are split into reads, in every
\* step of the connection the bytes that leave the stream (the buffer
\* followed by the bytes not yet read) are a prefix of it that ends with a
\* newline and lies within what has been read; each frame of that prefix
\* gets exactly one new entry of the log, in stream order, with what its
\* text decodes to; empty lines get none; the entries already there stay;
\* and when the connection waits for the next read the buffer holds no
\* newline, only the incomplete last frame.
C34_FramesOncePerLine ==
    [][\A c \in Conns :
          (cpc[c] \in {"read", "handler"} /\ Len(wire'[c]) <= Len(wire[c])) =>
            LET before == buf[c] \o wire[c]
                after  == buf'[c] \o wire'[c]
                k      == Len(before) - Len(after)
                taken  == SubSeq(before, 1, k)
                frames == FramesOf(taken)
                fresh  == SubSeq(log'[c], Len(log[c]) + 1, Len(log'[c]))
            IN  /\ k >= 0
                /\ after = SubSeq(before, k + 1, Len(before))
                /\ k > 0 => taken[k] = NL
                /\ k <= Len(buf[c]) + (Len(wire[c]) - Len(wire'[c]))
                /\ Len(fresh) = Len(frames)
                /\ \A j \in 1..Len(frames) :
                      /\ fresh[j].type = FromJson(Text(frames[j])).type
                      /\ FromJson(Text(frames[j])).err # "none" =>
                            fresh[j].err = FromJson(Text(frames[j])).err
                /\ \A j \in 1..Len(log[c]) : log'[c][j].type = log[c][j].type
                /\ cpc'[c] = "read" => NL \notin Members(buf'[c])]_vars

\* A first frame was dispatched and its handler ran; of a second frame,
\* sent in two parts, the first part has been read and waits in the buffer
\* while the second part and the newline are still to be read.
C34_Witness ==
    /\ cpc[1] = "read"
    /\ buf[1] = <<Frag(Line("ok", "ping", "full"), 1)>>
    /\ wire[1] = <<Frag(Line("ok", "ping", "full"), 2), NL>>
    /\ Len(log[1]) = 1
    /\ log[1][1].type = "kb_list"
    /\ log[1][1].ran = <<"fallback">>


\* ---- C35 ----

\* DevEchoBackend.start up to its first await: the Phase 1 handlers are
\* registered with the IPC server, and the Phase 2 handlers over them when
\* _init_phase2_services succeeded.
BackendRegister(phase2) ==
    /\ \A t \in KBTags : ~fallback[t]
    /\ loopPc = "none"
    /\ starts = 0
    /\ fallback' = [t \in KBTags |-> TRUE]
    /\ dedicated' = [t \in KBTags |-> phase2]
    /\ UNCHANGED <<srvRunning, clients, cpc, wire, buf, handlerCall, log,
                   sent>>
    /\ UNCHANGED <<lvars, bvars, tvars, hvars>>

\* await self.transcription_service.start(), after the registrations.
BackendStartTranscription ==
    /\ \A t \in KBTags : fallback[t]
    /\ Start

StartedInOrder_Any == TRUE

\* What DevEchoBackend.start has done when it comes to
\* await self.ipc_server.start(): the registrations, and
\* transcription_service.start() has returned.
StartedInOrder ==
    /\ \A t \in KBTags : fallback[t]
    /\ loopPc # "none"

\* await self.ipc_server.start(), the last await of DevEchoBackend.start.
BackendStartServer ==
    /\ StartedInOrder
    /\ ColdStart

\* The backend comes up while two clients try to connect and send requests
\* and audio.
NextStartup ==
    \/ \E phase2 \in BOOLEAN : BackendRegister(phase2)
    \/ BackendStartTranscription
    \/ BackendStartServer
    \/ \E c \in Conns : Connect(c)
    \/ \E c \in Conns : SendFrame(c, Line("ok", "kb_list", "full"))
    \/ \E c \in Conns, n \in {MIN_BUFFER_SAMPLES, buffer_threshold} :
          AudioFrame(c, "system", n)
    \/ \E c \in Conns, n \in 1..(2 * MaxFrames) : ReadChunk(c, n)
    \/ \E c \in Conns : HandlerEnd(c)
    \/ LoopWake
    \/ \E outcome \in Outcomes : LoopTranscribeEnd(outcome)
    \/ LoopCallbackEnd

SpecStartup == Init /\ [][NextStartup]_vars

\* C35: while the backend starts, a client connection is accepted or a
\* frame dispatched (to a handler or to process_audio) only when every
\* handler is registered and the loop of the transcription service runs;
\* a request that is dispatched finds its handler.
C35_ServeAfterSetup ==
    (\/ \E c \in Conns : cpc[c] # "free" \/ log[c] # <<>>
     \/ chunks > 0)
        => /\ \A t \in KBTags : fallback[t]
           /\ running
           /\ loopPc \in {"sleep", "await", "callback"}
           /\ \A c \in Conns : \A j \in 1..Len(log[c]) :
                 log[c][j].type \in KBTags => log[c][j].ran # <<>>

\* Both clients are connected, a request of one has been dispatched to its
\* handler and the audio of the other is being transcribed.
C35_Witness ==
    /\ \A c \in Conns : cpc[c] \in {"read", "handler"}
    /\ \E c \in Conns : log[c] # <<>> /\ log[c][1].ran # <<>>
    /\ loopPc = "await"


\* ---- C36 ----

\* The position of a source in list(AudioSource).
IndexOf(S) == CHOOSE j \in 1..Len(AudioSource) : AudioSource[j] = S

\* The buffer or the start timestamp of source S changes in this step.
Touched(S) ==
    buffers'[S] # buffers[S] \/ buffer_timestamps'[S] # buffer_timestamps[S]

\* This step is a process_audio call that leaves every source but S alone.
AppendFor(S) ==
    /\ chunks' = chunks + 1
    /\ \A T \in Sources \ {S} : appended'[T] = appended[T] /\ ~Touched(T)

\* This step removes a window of S for a tick and leaves every other source
\* alone.
TickFor(S) ==
    /\ inflight'["loop"] # inflight["loop"]
    /\ inflight'["loop"].src = S
    /\ \A T \in Sources \ {S} : ~Touched(T)

\* This step is a run of the _flush_buffers of p whose for statement comes
\* to S: S lies after the source whose transcription p was awaiting.
FlushFor(p, S) ==
    /\ stopPc[p] \in {"awaitTask", "await", "callback"}
    /\ stopPc'[p] \in {"await", "callback", "done"}
    /\ stopPc[p] = "awaitTask" \/ IndexOf(S) > stopIdx[p]
    /\ inflight'[p] = inflight[p] \/ inflight'[p] = NoCall
           \/ IndexOf(S) <= IndexOf(inflight'[p].src)

\* C36: a source's buffer and start timestamp change only in a step that
\* operates on that source, a process_audio call for it, the removal of its
\* window by a tick or its turn in a flush, and process_audio and the tick
\* leave every other source as it was; and the window handed to a
\* transcription call for source S is made of the samples of S's own
\* stream that follow the ones removed from S's buffer before, all of them
\* appended with source S.
C36_SourceIsolation ==
    [][/\ \A S \in Sources :
             Touched(S) =>
                 \/ AppendFor(S)
                 \/ TickFor(S)
                 \/ \E p \in StopCallers : FlushFor(p, S)
       /\ \A o \in Owners :
             (inflight'[o] # inflight[o] /\ inflight'[o] # NoCall) =>
                 LET call == inflight'[o]
                     k    == Len(Samples(extracted[call.src]))
                 IN  /\ call.samples = Range(k + 1, k + Len(call.samples))
                     /\ k + Len(call.samples) <= appended[call.src]
                     /\ call.samples =
                            Take(buffers[call.src], Len(call.samples))]_vars

\* A window of the system source is being transcribed for the loop while
\* the microphone buffer holds its own samples, fewer than arrived for the
\* system source, with its own timestamp.
C36_Witness ==
    /\ inflight["loop"].src = "system"
    /\ buffers["microphone"] = Range(1, MIN_BUFFER_SAMPLES)
    /\ buffer_timestamps["microphone"] = 0
    /\ buffers["system"] = <<>>


\* ---- C37 ----

\* C37: whenever the loop starts a transcription call, the source's buffer
\* held a window before the step, the samples of the call are the first
\* buffer_threshold samples of that buffer and its timestamp the one
\* recorded for that source (time.time() when none was), both removed from
\* the source's buffer and timestamps in this very step and from no other
\* source; and the loop removes no window without starting the call for it
\* in the same step.
C37_CallTakesOwnWindow ==
    [][/\ (inflight'["loop"] # inflight["loop"] /\ inflight'["loop"] # NoCall) =>
             LET call == inflight'["loop"]
                 S    == call.src
             IN  /\ Len(buffers[S]) >= buffer_threshold
                 /\ call.samples = SubSeq(buffers[S], 1, buffer_threshold)
                 /\ buffers'[S] =
                        SubSeq(buffers[S], buffer_threshold + 1, Len(buffers[S]))
                 /\ call.ts = IF buffer_timestamps[S] = Absent
                                THEN TimeNow
                                ELSE buffer_timestamps[S]
                 /\ buffer_timestamps'[S] \in {TimeNow, Absent}
                 /\ extracted'[S] =
                        Append(extracted[S],
                               [by |-> "loop", samples |-> call.samples])
                 /\ \A T \in Sources \ {S} :
                        /\ extracted'[T] = extracted[T]
                        /\ buffers'[T] = buffers[T]
                        /\ buffer_timestamps'[T] = buffer_timestamps[T]
       /\ \A S \in Sources :
             (/\ Len(extracted'[S]) > Len(extracted[S])
              /\ extracted'[S][Len(extracted'[S])].by = "loop") =>
                 /\ inflight'["loop"].src = S
                 /\ inflight'["loop"].wid = Len(extracted'[S])
                 /\ inflight'["loop"].samples =
                        extracted'[S][Len(extracted'[S])].samples]_vars

\* In one pass the loop has transcribed a window of the system source and
\* now awaits the call for the window of the microphone source, which
\* carries the microphone's samples and the microphone's timestamp.
C37_Witness ==
    /\ inflight["loop"].src = "microphone"
    /\ inflight["loop"].samples = Range(1, buffer_threshold)
    /\ inflight["loop"].ts = 0
    /\ Len(extracted["system"]) = 1
    /\ loopIdx = 2


\* ---- C39 ----

\* C39: at the moment a call of TranscriptionService.stop() returns, the
\* buffer of every source is empty, whatever process_audio calls arrived
\* while _flush_buffers was awaiting a transcription.
C39_StopLeavesNothingBuffered ==
    [][\A p \in StopCallers :
          (stopPc[p] # "done" /\ stopPc'[p] = "done") =>
              \A S \in Sources : buffers'[S] = <<>>]_vars


\* ---- C40 ----
\*
\* TranscriptionService.start and stop with the await of
\* engine.initialize() in start: hreq is the service (its _running, the
\* engine's _initialized, the holder of the engine's lock and the task in
\* _process_task), hcalls the _process_loop tasks created so far ("pending"
\* while a task is alive), hpc where each caller of start() is suspended
\* and hout the calls made.

\* The coroutines that call start().
ServiceCallers == {"first", "second"}

InitLoops ==
    /\ TInit
    /\ IInit
    /\ hpc = [c \in ServiceCallers |-> "idle"]
    /\ hreq = [running |-> FALSE, initialized |-> FALSE, lock |-> "free",
               task |-> 0]
    /\ hcalls = <<>>
    /\ hout = <<>>

\* self._running = True
\* self._process_task = asyncio.create_task(self._process_loop())
CreateLoop(c, service) ==
    /\ hreq' = [service EXCEPT !.running = TRUE, !.task = Len(hcalls) + 1]
    /\ hcalls' = Append(hcalls, Call("_process_loop", c, "pending"))

\* engine.initialize() from its "async with self._lock" on, for caller c:
\* with the lock, it returns at once when the model is loaded and awaits
\* the loading otherwise; start() goes on as soon as it returns.
Initialize(c) ==
    IF hreq.initialized
      THEN /\ CreateLoop(c, [hreq EXCEPT !.lock = "free"])
           /\ hpc' = [hpc EXCEPT ![c] = "idle"]
      ELSE /\ hreq' = [hreq EXCEPT !.lock = c]
           /\ hpc' = [hpc EXCEPT ![c] = "loading"]
           /\ UNCHANGED hcalls

\* start() up to its first suspension: it returns when _running is set;
\* otherwise it awaits engine.initialize(), which returns at once when
\* _initialized is set and else takes the engine's lock or waits for it
\* behind the caller that holds it.
StartService(c) ==
    /\ hpc[c] = "idle"
    /\ Len(hout) < MaxCalls
    /\ hout' = Append(hout, "start")
    /\ IF hreq.running
         THEN UNCHANGED <<hpc, hreq, hcalls>>
       ELSE IF hreq.initialized
         THEN /\ CreateLoop(c, hreq)
              /\ UNCHANGED hpc
       ELSE IF hreq.lock = "free" /\ \A d \in ServiceCallers : hpc[d] # "lockwait"
         THEN Initialize(c)
       ELSE /\ hpc' = [hpc EXCEPT ![c] = "lockwait"]
            /\ UNCHANGED <<hreq, hcalls>>
    /\ UNCHANGED <<tvars, ivars>>

\* The loading of the model ends for the caller that holds the lock: with
\* the model loaded initialize sets _initialized and returns, and start()
\* sets _running and creates the task; otherwise initialize raises
\* ModelInitializationError, which leaves start().
LoadEnd(c, loaded) ==
    /\ hpc[c] = "loading"
    /\ hpc' = [hpc EXCEPT ![c] = "idle"]
    /\ IF loaded
         THEN CreateLoop(c, [hreq EXCEPT !.initialized = TRUE, !.lock = "free"])
         ELSE /\ hreq' = [hreq EXCEPT !.lock = "free"]
              /\ UNCHANGED hcalls
    /\ UNCHANGED <<hout, tvars, ivars>>

\* The caller that waited for the engine's lock gets it.
LockAcquired(c) ==
    /\ hpc[c] = "lockwait"
    /\ hreq.lock = "free"
    /\ Initialize(c)
    /\ UNCHANGED <<hout, tvars, ivars>>

\* while self._running: a _process_loop task that finds _running unset
\* after its pass returns.
LoopReturns(i) ==
    /\ i \in 1..Len(hcalls)
    /\ hcalls[i].outcome = "pending"
    /\ ~hreq.running
    /\ hcalls' = [hcalls EXCEPT ![i] = Call(@.callee, @.arg, "returned")]
    /\ UNCHANGED <<hpc, hreq, hout, tvars, ivars>>

\* stop(): _running is unset, the task in _process_task is cancelled and
\* awaited, the buffers (empty here) are flushed and engine.shutdown()
\* unsets _initialized.  The cancelled task is taken to end at once.
StopService ==
    /\ Len(hout) < MaxCalls
    /\ hout' = Append(hout, "stop")
    /\ hreq' = [hreq EXCEPT !.running = FALSE, !.initialized = FALSE]
    /\ hcalls' = IF hreq.task # 0 /\ hcalls[hreq.task].outcome = "pending"
                   THEN [hcalls EXCEPT ![hreq.task] =
                           Call(@.callee, @.arg, "cancelled")]
                   ELSE hcalls
    /\ UNCHANGED <<hpc, tvars, ivars>>

NextLoops ==
    \/ \E c \in ServiceCallers : StartService(c)
    \/ \E c \in ServiceCallers, loaded \in BOOLEAN : LoadEnd(c, loaded)
    \/ \E c \in ServiceCallers : LockAcquired(c)
    \/ \E i \in 1..MaxCalls : LoopReturns(i)
    \/ StopService

SpecLoops == InitLoops /\ [][NextLoops]_vars

\* The _process_loop tasks that are alive.
ActiveLoops == {i \in 1..Len(hcalls) : hcalls[i].outcome = "pending"}

\* C40: at any time at most one _process_loop task of the service is
\* alive, whatever start() and stop() calls are made and however the
\* start() calls overlap while the engine loads its model.
C40_SingleLoop == Cardinality(ActiveLoops) <= 1

====
